---- MODULE Spec2Model ----
(***************************************************************************)
(* Model of the vnlib_compress unified streaming compression facade        *)
(* (compression.c) and its three backend adapters (feature_zlib.c,         *)
(* feature_brotli.c, feature_zstd.c).  One State handle is modelled; the   *)
(* codec libraries and the allocator are the environment: their outcomes   *)
(* are chosen nondeterministically among the results their headers allow.  *)
(***************************************************************************)
EXTENDS Integers, FiniteSets, Sequences, TLC

(* ------------------------------------------------------------------ *)
(* Bounds of the model                                                 *)
(* ------------------------------------------------------------------ *)

\* Largest buffer length (bytesInLength / bytesOutLength) the caller passes.
MaxLen == 2

\* Width, in bits, of the modelled uint32_t fields of CompressionOperation.
WordBits == 20

\* Width, in bits, of the modelled 64-bit lengths of GetCompressedSize.
LongBits == 24

(* ------------------------------------------------------------------ *)
(* Program constants                                                   *)
(* ------------------------------------------------------------------ *)

NULL == 0

VNCMP_SUCCESS == 1
ERR_INVALID_PTR == -1
ERR_OUT_OF_MEMORY == -2
ERR_OUT_OF_BOUNDS == -3
ERR_INVALID_ARGUMENT == -4
ERR_COMP_TYPE_NOT_SUPPORTED == -9
ERR_COMP_LEVEL_NOT_SUPPORTED == -10
ERR_INVALID_INPUT_DATA == -11
ERR_INVALID_OUTPUT_DATA == -12
ERR_COMPRESSION_FAILED == -13
ERR_OVERFLOW == -14
ERR_GZ_INVALID_STATE == -16
ERR_GZ_OVERFLOW == -17
ERR_ZSTD_INVALID_STATE == -18
ERR_ZSTD_COMPRESSION_FAILED == -19
ERR_BR_INVALID_STATE == -24

COMP_TYPE_NONE == 0
COMP_TYPE_GZIP == 1
COMP_TYPE_DEFLATE == 2
COMP_TYPE_BROTLI == 4
COMP_TYPE_ZSTD == 8

COMP_LEVEL_OPTIMAL == 0
COMP_LEVEL_FASTEST == 1
COMP_LEVEL_NO_COMPRESSION == 2
COMP_LEVEL_SMALLEST_SIZE == 3

\* zlib.h return codes, flush modes and levels as the adapter uses them
Z_OK == 0
Z_STREAM_END == 1
Z_STREAM_ERROR == -2
Z_DATA_ERROR == -3
Z_MEM_ERROR == -4
Z_BUF_ERROR == -5
Z_VERSION_ERROR == -6
Z_NO_FLUSH == 0
Z_FINISH == 4
Z_NO_COMPRESSION == 0
Z_BEST_SPEED == 1
Z_BEST_COMPRESSION == 9
Z_DEFAULT_COMPRESSION == -1
GZ_ENABLE_GZIP_WINDOW == 31
GZ_ENABLE_RAW_DEFLATE_WINDOW == -15

\* brotli adapter
BR_COMP_LEVEL_FASTEST == 1
BR_COMP_LEVEL_OPTIMAL == 11
BR_COMP_LEVEL_SMALLEST_SIZE == 9
BR_COMP_LEVEL_DEFAULT == 5
BR_DEFAULT_WINDOW == 22

\* zstd adapter
STREAM_FLAG_FINISHED == 1
ZSTD_LEVEL_MIN == 1
ZSTD_LEVEL_OPTIMAL == 6
ZSTD_maxCLevel == 22
ZSTD_CLEVEL_DEFAULT == 3
ZSTD_CStreamInSize == 131072

\* Build configuration: the three VNLIB_COMPRESSOR_*_ENABLED switches.
VNLIB_COMPRESSOR_ZLIB_ENABLED == TRUE
VNLIB_COMPRESSOR_BROTLI_ENABLED == TRUE
VNLIB_COMPRESSOR_ZSTD_ENABLED == TRUE

(* ------------------------------------------------------------------ *)
(* Pointers of the environment                                         *)
(* ------------------------------------------------------------------ *)

\* The caller's CompressionOperation struct, and the caller-owned buffers it
\* may point at.
CallerOp == 100
CallerIn == 101
CallerOut == 102
\* An opaque allocator context a caller may bind with CompressionAllocState2.
UserCtx == 201
\* The indeterminate content of allocated memory that nothing has written yet.
Uninit == 301

\* Function pointers: the library's default pair, a caller's pair, and the
\* process allocator brotli's callbacks reach through util.h.
NullFn == "null"
VnMalloc == "vnmalloc"
VnFree == "vnfree"
UserAlloc == "user_alloc"
UserFree == "user_free"
UtilMalloc == "util_vnmalloc"
UtilFree == "util_vnfree"

\* Two threads start no further allocation once this many blocks are live.
MaxLive == 4

\* uint32_t arithmetic of the operation's result fields
U32 == 2 ^ WordBits
Sub32(a, b) == (a - b) % U32
U64 == 2 ^ LongBits
INT64_MAX == 2 ^ (LongBits - 1) - 1

(* ------------------------------------------------------------------ *)
(* State                                                               *)
(* ------------------------------------------------------------------ *)

VARIABLES
    statePtr,   \* the caller's State handle (out pointer of AllocState), NULL if none
    state,      \* the comp_state_t the handle points at
    heap,       \* live allocator blocks: records [id, kind, fn, opaque]
    backend,    \* the codec instance state.compressor points at
    op,         \* the CompressionOperation of the last CompressBlock call, as it returned
    last,       \* what the last facade call was, and what it did
    build,      \* which adapters the library was compiled with
    pair,       \* a second State on the same allocator, and the first State run alone
    threads     \* two threads calling into the State with no lock: where each is in its call

vars == <<statePtr, state, heap, backend, op, last, build, pair, threads>>

\* The builds of the library: each VNLIB_COMPRESSOR_*_ENABLED switch on or off.
Builds == [zlib : BOOLEAN, brotli : BOOLEAN, zstd : BOOLEAN]

\* The build with every adapter compiled in.
FullBuild ==
    [zlib |-> VNLIB_COMPRESSOR_ZLIB_ENABLED,
     brotli |-> VNLIB_COMPRESSOR_BROTLI_ENABLED,
     zstd |-> VNLIB_COMPRESSOR_ZSTD_ENABLED]

\* comp_state_t after memset(0)
ZeroState ==
    [compressor |-> NULL, memOpaque |-> NULL, allocFunc |-> NullFn, freeFunc |-> NullFn,
     type |-> COMP_TYPE_NONE, level |-> COMP_LEVEL_OPTIMAL, blockSize |-> 0]

\* No codec instance.
NoBackend ==
    [kind |-> "none",
     \* z_stream
     next_in |-> NULL, avail_in |-> 0, next_out |-> NULL, avail_out |-> 0,
     status |-> "NONE", param |-> 0, window |-> 0, internal |-> {},
     \* the allocator triple the codec keeps (zalloc/zfree/opaque, customMem, brotli callbacks)
     libAlloc |-> NullFn, libFree |-> NullFn, libOpaque |-> NULL,
     \* zstd_stream_state
     stream |-> NULL, flags |-> 0,
     \* BrotliEncoderState
     sizeHint |-> 0]

ZeroOp ==
    [bytesIn |-> NULL, bytesOut |-> NULL, flush |-> 0,
     bytesInLength |-> 0, bytesOutLength |-> 0, bytesRead |-> 0, bytesWritten |-> 0]

\* The record of one facade call.
Call(name, res) ==
    [op |-> name, res |-> res, wasActive |-> FALSE, handle |-> NULL, opPtr |-> NULL,
     type |-> 0, level |-> 0, step |-> FALSE, finish |-> FALSE, wrote |-> 0,
     nfree |-> 0, ninit |-> 0, frees |-> {}, allocs |-> {},
     \* allocator calls that returned NULL; whether the codec step, and the codec's
     \* termination, reported an error; the allocator pair the caller supplied
     nulls |-> 0, stepErr |-> FALSE, endErr |-> FALSE,
     alloc |-> NullFn, free |-> NullFn,
     \* the inputLength and flush arguments of GetCompressedSize, and whether the
     \* call reached an adapter's size function
     len |-> 0, flush |-> 0, sized |-> FALSE]

(* ------------------------------------------------------------------ *)
(* The allocator                                                       *)
(* ------------------------------------------------------------------ *)

Ids(h) == {b.id : b \in h}

\* Fault seeding: an allocator that numbers its blocks by how many are live, and
\* so hands out an address still in use after a release.
FreshIdByCount(h) == Cardinality(h) + 1

\* The address a successful allocation returns: the lowest one not in use.
FreshId(h) == CHOOSE n \in 1..(Cardinality(h) + 1) :
                 /\ n \notin Ids(h)
                 /\ \A m \in 1..(n - 1) : m \in Ids(h)

Block(id, kind, fn, opaque) == [id |-> id, kind |-> kind, fn |-> fn, opaque |-> opaque]

\* A release: the block freed, the callback and opaque used, whether it was live,
\* and its position n among the releases of the call.
Release(h, id, fn, opaque, n) ==
    [id |-> id, fn |-> fn, opaque |-> opaque, live |-> id \in Ids(h), n |-> n]

HeapFree(h, id) == {b \in h : b.id # id}

\* Call-local variables of a compress step: the remaining (brotli) or consumed
\* (zstd) counts the codec leaves behind, and what it returned.
NoLocals == [ain |-> 0, aout |-> 0, r |-> 0, err |-> FALSE]

\* The world an operation runs in: the State object at address self, the heap,
\* the codec instance, and the record of the call in progress.
WorldOf(name, sp, st, h, be, o) ==
    [self |-> sp, st |-> st, heap |-> h, be |-> be, build |-> build,
     call |-> [Call(name, 0) EXCEPT !.wasActive = st.type # COMP_TYPE_NONE,
                                    !.handle = st.compressor],
     o |-> o,           \* the operation struct the call is given
     ptr |-> NULL,      \* the pointer the last allocation returned
     loc |-> NoLocals]  \* the call-local cursors of a codec step

\* The world as it is now.
World(name) == WorldOf(name, statePtr, state, heap, backend, op)

\* return r;
Ret(w, r) == [w EXCEPT !.call.res = r]

\* One call of an allocation callback: fn(opaque, size). It returns NULL when the
\* allocator is exhausted (oom), else a fresh block. The pointer is left in w.ptr.
CallAlloc(w, fn, opaque, kind, oom) ==
    IF oom
    THEN [w EXCEPT !.ptr = NULL, !.call.nulls = @ + 1]
    ELSE LET b == Block(FreshId(w.heap), kind, fn, opaque)
         IN  [w EXCEPT !.ptr = b.id,
                       !.heap = @ \cup {b},
                       !.call.allocs = @ \cup {b}]

\* One call of a release callback: fn(opaque, address).
CallFree(w, fn, opaque, id) ==
    [w EXCEPT !.heap = HeapFree(@, id),
              !.call.frees = @ \cup {Release(w.heap, id, fn, opaque, Cardinality(@) + 1)}]

\* _stateMemAlloc(state, size): NULL without an allocFunc, else allocFunc(memOpaque, size)
stateMemAlloc(w, kind, oom) ==
    IF w.st.allocFunc = NullFn
    THEN [w EXCEPT !.ptr = NULL]
    ELSE CallAlloc(w, w.st.allocFunc, w.st.memOpaque, kind, oom)

\* _stateMemFree(state, ptr): freeFunc(memOpaque, ptr) when both are non-null
stateMemFree(w, id) ==
    IF w.st.freeFunc # NullFn /\ id # NULL
    THEN CallFree(w, w.st.freeFunc, w.st.memOpaque, id)
    ELSE w

\* Fault seeding: a clear that leaves the block size in the State.
stateClearCompressorKeepsBlockSize(w) ==
    [w EXCEPT !.st.type = COMP_TYPE_NONE,
              !.st.level = COMP_LEVEL_OPTIMAL,
              !.st.compressor = NULL]

\* Fault seeding: a clear that forgets the level.
stateClearCompressorKeepsLevel(w) ==
    [w EXCEPT !.st.type = COMP_TYPE_NONE,
              !.st.blockSize = 0,
              !.st.compressor = NULL]

\* _stateClearCompressor
stateClearCompressor(w) ==
    [w EXCEPT !.st.type = COMP_TYPE_NONE,
              !.st.level = COMP_LEVEL_OPTIMAL,
              !.st.blockSize = 0,
              !.st.compressor = NULL]

(* ------------------------------------------------------------------ *)
(* Deflate / Gzip adapter (feature_zlib.c)                             *)
(* ------------------------------------------------------------------ *)

\* The faults the environment can inject into one AllocCompressor call: the
\* n-th allocation of the call returns NULL, or the codec's init reports an error.
AllocFaults == {"none", "oom1", "oom2", "oom3", "init_error", "version_error"}

\* The faults of one FreeCompressor call: deflateEnd finds the stream inconsistent.
FreeFaults == {"none", "end_error"}

\* _gzAllocCallback(opaque, items, size): opaque is the comp_state_t
gzAllocCallback(w, kind, oom) == stateMemAlloc(w, kind, oom)

\* switch (state->level) of DeflateAllocCompressor
DeflateCompLevel(level) ==
    CASE level = COMP_LEVEL_NO_COMPRESSION -> Z_NO_COMPRESSION
      [] level = COMP_LEVEL_FASTEST -> Z_BEST_SPEED
      [] level = COMP_LEVEL_OPTIMAL -> Z_BEST_COMPRESSION
      [] level = COMP_LEVEL_SMALLEST_SIZE -> Z_BEST_COMPRESSION
      [] OTHER -> Z_DEFAULT_COMPRESSION

\* zlib's deflateInit2 on the stream in w.be: it allocates its state and then its
\* buffers through zalloc(opaque, ..); when the second allocation fails it releases
\* the first through zfree(opaque, ..). The result is left in w.call.res.
deflateInit2(w, compLevel, windowBits, fault) ==
    CASE fault = "version_error" -> Ret(w, Z_VERSION_ERROR)
      [] fault = "init_error" -> Ret(w, Z_STREAM_ERROR)
      [] OTHER ->
        LET a1 == gzAllocCallback(w, "deflate_state", fault = "oom2")
        IN  IF a1.ptr = NULL THEN Ret(a1, Z_MEM_ERROR)
            ELSE LET a2 == gzAllocCallback(a1, "deflate_window", fault = "oom3")
                 IN  IF a2.ptr = NULL
                     THEN Ret(CallFree(a2, w.be.libFree, w.be.libOpaque, a1.ptr), Z_MEM_ERROR)
                     ELSE Ret([a2 EXCEPT !.be.internal = {a1.ptr, a2.ptr},
                                         !.be.status = "INIT",
                                         !.be.param = compLevel,
                                         !.be.window = windowBits,
                                         !.call.ninit = @ + 1], Z_OK)

\* int DeflateAllocCompressor(comp_state_t* state). The z_stream is not zeroed:
\* its cursor fields stay indeterminate until the first compress call.
DeflateAllocCompressor(w, fault) ==
    LET a == stateMemAlloc(w, "z_stream", fault = "oom1")
    IN  IF a.ptr = NULL THEN Ret(a, ERR_OUT_OF_MEMORY)
        ELSE
        LET stream == a.ptr
            s0 == [a EXCEPT !.be = [NoBackend EXCEPT !.kind = "zlib",
                                        !.next_in = Uninit, !.next_out = Uninit,
                                        !.avail_in = Uninit, !.avail_out = Uninit,
                                        !.libAlloc = "_gzAllocCallback",
                                        !.libFree = w.st.freeFunc,
                                        !.libOpaque = w.self]]
            s1 == deflateInit2(s0, DeflateCompLevel(w.st.level),
                      IF (w.st.type % 2) = 1 THEN GZ_ENABLE_GZIP_WINDOW
                                             ELSE GZ_ENABLE_RAW_DEFLATE_WINDOW,
                      fault)
        IN  IF s1.call.res # Z_OK
            THEN Ret([stateMemFree(s1, stream) EXCEPT !.be = NoBackend], s1.call.res)
            ELSE Ret([s1 EXCEPT !.st.compressor = stream], VNCMP_SUCCESS)

\* zlib's deflateEnd: it releases the stream's internal blocks through
\* zfree(opaque, ..) and reports Z_DATA_ERROR when the stream was ended while
\* busy, Z_STREAM_ERROR when it found the stream inconsistent, else Z_OK.
deflateEnd(w, fault) ==
    LET RECURSIVE FreeAll(_, _)
        FreeAll(x, ids) ==
            IF ids = {} THEN x
            ELSE LET i == CHOOSE j \in ids : \A k \in ids : j <= k
                 IN  FreeAll(CallFree(x, w.be.libFree, w.be.libOpaque, i), ids \ {i})
        r == IF fault = "end_error" THEN Z_STREAM_ERROR
             ELSE IF w.be.status = "BUSY" THEN Z_DATA_ERROR ELSE Z_OK
    IN  Ret([FreeAll(w, w.be.internal) EXCEPT !.be.internal = {}, !.be.status = "NONE",
                                              !.call.endErr = (fault = "end_error")], r)

\* return result == Z_OK || result == Z_DATA_ERROR;
DeflateFreeResult(result) == IF result = Z_OK \/ result = Z_DATA_ERROR THEN 1 ELSE 0

\* Fault seeding: a release that gives up, stream still attached, when deflateEnd
\* reports anything but Z_OK or Z_DATA_ERROR.
DeflateFreeCompressorStopsOnError(w0, fault) ==
    LET w == [w0 EXCEPT !.call.nfree = @ + 1]
    IN  IF w.st.compressor # NULL
        THEN LET e == deflateEnd(w, fault)
                 f == stateMemFree(e, e.st.compressor)
             IN  IF DeflateFreeResult(e.call.res) = 0
                 THEN Ret(e, ERR_INVALID_ARGUMENT)
                 ELSE Ret([f EXCEPT !.st.compressor = NULL, !.be = NoBackend],
                          DeflateFreeResult(e.call.res))
        ELSE Ret(w, VNCMP_SUCCESS)

\* int DeflateFreeCompressor(comp_state_t* state)
DeflateFreeCompressor(w0, fault) ==
    LET w == [w0 EXCEPT !.call.nfree = @ + 1]
    IN  IF w.st.compressor # NULL
        THEN LET e == deflateEnd(w, fault)
                 f == stateMemFree(e, e.st.compressor)
             IN  Ret([f EXCEPT !.st.compressor = NULL, !.be = NoBackend],
                     DeflateFreeResult(e.call.res))
        ELSE Ret(w, VNCMP_SUCCESS)

(* ------------------------------------------------------------------ *)
(* Zstd adapter (feature_zstd.c)                                       *)
(* ------------------------------------------------------------------ *)

\* Fault seeding: a release of the wrapper that forgets ZSTD_freeCStream.
ZstdFreeCompressorLeaksStream(w0) ==
    LET w == [w0 EXCEPT !.call.nfree = @ + 1]
    IN  IF w.self # NULL /\ w.st.compressor # NULL
        THEN [stateMemFree(w, w.st.compressor)
                 EXCEPT !.st.compressor = NULL, !.be = NoBackend]
        ELSE w

\* void ZstdFreeCompressor(comp_state_t* state); ZSTD_freeCStream releases the
\* context through the customMem it was created with.
ZstdFreeCompressor(w0) ==
    LET w == [w0 EXCEPT !.call.nfree = @ + 1]
    IN  IF w.self # NULL /\ w.st.compressor # NULL
        THEN LET a == IF w.be.stream # NULL
                      THEN [CallFree(w, w.be.libFree, w.be.libOpaque, w.be.stream)
                               EXCEPT !.be.stream = NULL]
                      ELSE w
                 b == stateMemFree(a, a.st.compressor)
             IN  [b EXCEPT !.st.compressor = NULL, !.be = NoBackend]
        ELSE w

\* switch (state->level) of ZstdAllocCompressor
ZstdCompLevel(level) ==
    CASE level = COMP_LEVEL_NO_COMPRESSION -> ZSTD_LEVEL_MIN
      [] level = COMP_LEVEL_FASTEST -> ZSTD_LEVEL_MIN
      [] level = COMP_LEVEL_OPTIMAL -> ZSTD_LEVEL_OPTIMAL
      [] level = COMP_LEVEL_SMALLEST_SIZE -> ZSTD_maxCLevel
      [] OTHER -> ZSTD_CLEVEL_DEFAULT

\* Fault seeding: an error path that releases the wrapper itself before it calls
\* ZstdFreeCompressor.
ZstdAllocCompressorFreesWrapperFirst(w, fault) ==
    LET a == stateMemAlloc(w, "zstd_stream_state", fault = "oom1")
    IN  IF a.ptr = NULL THEN Ret(a, ERR_OUT_OF_MEMORY)
        ELSE
        LET s0 == [a EXCEPT !.st.compressor = a.ptr,
                            !.be = [NoBackend EXCEPT !.kind = "zstd",
                                        !.libAlloc = w.st.allocFunc,
                                        !.libFree = w.st.freeFunc,
                                        !.libOpaque = w.st.memOpaque]]
            \* ZSTD_createCStream_advanced(customMem)
            c  == CallAlloc(s0, s0.be.libAlloc, s0.be.libOpaque, "ZSTD_CStream", fault = "oom2")
        IN  IF c.ptr = NULL
            THEN Ret(ZstdFreeCompressor(c), ERR_OUT_OF_MEMORY)
            ELSE LET s1 == [c EXCEPT !.be.stream = c.ptr]
                 IN  \* ZSTD_initCStream(stream, compLevel)
                     IF fault = "init_error"
                     THEN Ret(ZstdFreeCompressor(stateMemFree(s1, s1.st.compressor)),
                              ERR_ZSTD_COMPRESSION_FAILED)
                     ELSE Ret([s1 EXCEPT !.be.param = ZstdCompLevel(w.st.level),
                                         !.be.status = "INIT",
                                         !.call.ninit = @ + 1,
                                         !.st.blockSize = ZSTD_CStreamInSize],
                              VNCMP_SUCCESS)

\* int ZstdAllocCompressor(comp_state_t* state)
ZstdAllocCompressor(w, fault) ==
    LET a == stateMemAlloc(w, "zstd_stream_state", fault = "oom1")
    IN  IF a.ptr = NULL THEN Ret(a, ERR_OUT_OF_MEMORY)
        ELSE
        LET s0 == [a EXCEPT !.st.compressor = a.ptr,
                            !.be = [NoBackend EXCEPT !.kind = "zstd",
                                        !.libAlloc = w.st.allocFunc,
                                        !.libFree = w.st.freeFunc,
                                        !.libOpaque = w.st.memOpaque]]
            \* ZSTD_createCStream_advanced(customMem)
            c  == CallAlloc(s0, s0.be.libAlloc, s0.be.libOpaque, "ZSTD_CStream", fault = "oom2")
        IN  IF c.ptr = NULL
            THEN Ret(ZstdFreeCompressor(c), ERR_OUT_OF_MEMORY)
            ELSE LET s1 == [c EXCEPT !.be.stream = c.ptr]
                 IN  \* ZSTD_initCStream(stream, compLevel)
                     IF fault = "init_error"
                     THEN Ret(ZstdFreeCompressor(s1), ERR_ZSTD_COMPRESSION_FAILED)
                     ELSE Ret([s1 EXCEPT !.be.param = ZstdCompLevel(w.st.level),
                                         !.be.status = "INIT",
                                         !.call.ninit = @ + 1,
                                         !.st.blockSize = ZSTD_CStreamInSize],
                              VNCMP_SUCCESS)

(* ------------------------------------------------------------------ *)
(* Brotli adapter (feature_brotli.c)                                   *)
(* ------------------------------------------------------------------ *)

\* switch (state->level) of BrAllocCompressor
BrQuality(level) ==
    CASE level = COMP_LEVEL_FASTEST -> BR_COMP_LEVEL_FASTEST
      [] level = COMP_LEVEL_OPTIMAL -> BR_COMP_LEVEL_OPTIMAL
      [] level = COMP_LEVEL_SMALLEST_SIZE -> BR_COMP_LEVEL_SMALLEST_SIZE
      [] OTHER -> BR_COMP_LEVEL_DEFAULT

\* _brAllocCallback(opaque, size): vnmalloc(size, 1) of util.h, the opaque unused
brAllocCallback(w, opaque, kind, oom) == CallAlloc(w, UtilMalloc, NULL, kind, oom)

\* _brFreeCallback(opaque, address): vnfree(address) of util.h when address is non-null
brFreeCallback(w, opaque, id) ==
    IF id # NULL THEN CallFree(w, UtilFree, NULL, id) ELSE w

\* Fault seeding: an encoder created at every level.
BrAllocCompressorAnyLevel(w, fault) ==
    LET c == brAllocCallback(w, NULL, "BrotliEncoderState", fault = "oom1")
    IN  IF c.ptr = NULL THEN Ret(c, ERR_OUT_OF_MEMORY)
        ELSE Ret([c EXCEPT !.st.compressor = c.ptr,
                           !.call.ninit = @ + 1,
                           !.be = [NoBackend EXCEPT !.kind = "brotli",
                                      !.libAlloc = "_brAllocCallback",
                                      !.libFree = "_brFreeCallback",
                                      !.libOpaque = NULL,
                                      !.status = "INIT",
                                      !.window = BR_DEFAULT_WINDOW,
                                      !.sizeHint = IF w.st.blockSize > 0
                                                   THEN w.st.blockSize ELSE 0,
                                      !.param = BrQuality(w.st.level)]],
                 VNCMP_SUCCESS)

\* int BrAllocCompressor(comp_state_t* state)
BrAllocCompressor(w, fault) ==
    IF w.st.level = COMP_LEVEL_NO_COMPRESSION
    THEN Ret(w, ERR_COMP_LEVEL_NOT_SUPPORTED)
    ELSE \* BrotliEncoderCreateInstance(&_brAllocCallback, &_brFreeCallback, NULL)
         LET c == brAllocCallback(w, NULL, "BrotliEncoderState", fault = "oom1")
         IN  IF c.ptr = NULL THEN Ret(c, ERR_OUT_OF_MEMORY)
             ELSE Ret([c EXCEPT !.st.compressor = c.ptr,
                                !.call.ninit = @ + 1,
                                !.be = [NoBackend EXCEPT !.kind = "brotli",
                                           !.libAlloc = "_brAllocCallback",
                                           !.libFree = "_brFreeCallback",
                                           !.libOpaque = NULL,
                                           !.status = "INIT",
                                           !.window = BR_DEFAULT_WINDOW,
                                           !.sizeHint = IF w.st.blockSize > 0
                                                        THEN w.st.blockSize ELSE 0,
                                           !.param = BrQuality(w.st.level)]],
                      VNCMP_SUCCESS)

\* void BrFreeCompressor(comp_state_t* state); BrotliEncoderDestroyInstance
\* releases the encoder through the free callback it was created with.
BrFreeCompressor(w0) ==
    LET w == [w0 EXCEPT !.call.nfree = @ + 1]
    IN  IF w.st.compressor # NULL
        THEN [brFreeCallback(w, w.be.libOpaque, w.st.compressor)
                 EXCEPT !.st.compressor = NULL, !.be = NoBackend]
        ELSE w

(* ------------------------------------------------------------------ *)
(* Facade: state and compressor lifetime (compression.c)               *)
(* ------------------------------------------------------------------ *)

\* GetSupportedCompressors: the bits compiled in, as a set
GetSupportedCompressors ==
    (IF build.zlib THEN {COMP_TYPE_GZIP, COMP_TYPE_DEFLATE} ELSE {})
    \cup (IF build.zstd THEN {COMP_TYPE_ZSTD} ELSE {})
    \cup (IF build.brotli THEN {COMP_TYPE_BROTLI} ELSE {})

\* int CompressionAllocState2(void** statePtr, alloc, free, opaque)
CompressionAllocState2(w0, alloc, free, opaque, oom) ==
    LET w == [w0 EXCEPT !.call.alloc = alloc, !.call.free = free]
    IN
    IF alloc = NullFn \/ free = NullFn
    THEN Ret(w, ERR_INVALID_ARGUMENT)
    ELSE LET a == CallAlloc(w, alloc, opaque, "comp_state_t", oom)
         IN  IF a.ptr = NULL THEN Ret(a, ERR_OUT_OF_MEMORY)
             ELSE Ret([a EXCEPT !.st = [ZeroState EXCEPT !.allocFunc = alloc,
                                                         !.freeFunc = free,
                                                         !.memOpaque = opaque],
                                !.be = NoBackend,
                                !.self = a.ptr], VNCMP_SUCCESS)

\* int CompressionAllocState(void** statePtr)
CompressionAllocState(w, oom) == CompressionAllocState2(w, VnMalloc, VnFree, NULL, oom)

\* Fault seeding: a switch that tests the bits of the type instead of its value.
AllocDispatchByBit(w, type, fault) ==
    CASE (type \div COMP_TYPE_BROTLI) % 2 = 1 ->
            IF w.build.brotli THEN BrAllocCompressor(w, fault)
            ELSE Ret(w, ERR_COMP_TYPE_NOT_SUPPORTED)
      [] type % COMP_TYPE_BROTLI # 0 ->
            IF w.build.zlib THEN DeflateAllocCompressor(w, fault)
            ELSE Ret(w, ERR_COMP_TYPE_NOT_SUPPORTED)
      [] (type \div COMP_TYPE_ZSTD) % 2 = 1 ->
            IF w.build.zstd THEN ZstdAllocCompressor(w, fault)
            ELSE Ret(w, ERR_COMP_TYPE_NOT_SUPPORTED)
      [] OTHER -> Ret(w, ERR_COMP_TYPE_NOT_SUPPORTED)

\* The switch of CompressionAllocCompressor over the compressor type.
AllocDispatch(w, type, fault) ==
    CASE type = COMP_TYPE_BROTLI ->
            IF w.build.brotli THEN BrAllocCompressor(w, fault)
            ELSE Ret(w, ERR_COMP_TYPE_NOT_SUPPORTED)
      [] type \in {COMP_TYPE_DEFLATE, COMP_TYPE_GZIP} ->
            IF w.build.zlib THEN DeflateAllocCompressor(w, fault)
            ELSE Ret(w, ERR_COMP_TYPE_NOT_SUPPORTED)
      [] type = COMP_TYPE_ZSTD ->
            IF w.build.zstd THEN ZstdAllocCompressor(w, fault)
            ELSE Ret(w, ERR_COMP_TYPE_NOT_SUPPORTED)
      [] OTHER -> Ret(w, ERR_COMP_TYPE_NOT_SUPPORTED)

\* Fault seeding: no rollback after a failed backend allocation.
AllocRollbackSkipped(w) == w

\* if (result != VNCMP_SUCCESS) _stateClearCompressor(state);
AllocRollback(w) ==
    IF w.call.res # VNCMP_SUCCESS THEN stateClearCompressor(w) ELSE w

\* Fault seeding: no guard against a second allocation.
AlreadyAllocatedNever(st) == FALSE

\* if (state->type != COMP_TYPE_NONE || state->compressor)
AlreadyAllocated(st) == st.type # COMP_TYPE_NONE \/ st.compressor # NULL

\* Fault seeding: the type is looked at before the attached compressor is.
CompressionAllocCompressorTypeFirst(w0, p, type, level, fault) ==
    LET w == [w0 EXCEPT !.call.type = type, !.call.level = level]
    IN  IF p = NULL THEN Ret(w, ERR_INVALID_PTR)
        ELSE IF level < 0 \/ level > 9 THEN Ret(w, ERR_COMP_LEVEL_NOT_SUPPORTED)
        ELSE IF type \notin GetSupportedCompressors THEN Ret(w, ERR_COMP_TYPE_NOT_SUPPORTED)
        ELSE IF AlreadyAllocated(w.st) THEN Ret(w, ERR_INVALID_ARGUMENT)
        ELSE AllocRollback(
                AllocDispatch([w EXCEPT !.st.type = type, !.st.level = level],
                              type, fault))

\* Fault seeding: a level check that has no lower bound.
CompressionAllocCompressorNoLowerBound(w0, p, type, level, fault) ==
    LET w == [w0 EXCEPT !.call.type = type, !.call.level = level]
    IN  IF p = NULL THEN Ret(w, ERR_INVALID_PTR)
        ELSE IF level > 9 THEN Ret(w, ERR_COMP_LEVEL_NOT_SUPPORTED)
        ELSE IF AlreadyAllocated(w.st) THEN Ret(w, ERR_INVALID_ARGUMENT)
        ELSE AllocRollback(
                AllocDispatch([w EXCEPT !.st.type = type, !.st.level = level],
                              type, fault))

\* int CompressionAllocCompressor(void* statePtr, CompressorType type, CompressionLevel level)
CompressionAllocCompressor(w0, p, type, level, fault) ==
    LET w == [w0 EXCEPT !.call.type = type, !.call.level = level]
    IN  IF p = NULL THEN Ret(w, ERR_INVALID_PTR)
        ELSE IF level < 0 \/ level > 9 THEN Ret(w, ERR_COMP_LEVEL_NOT_SUPPORTED)
        ELSE IF AlreadyAllocated(w.st) THEN Ret(w, ERR_INVALID_ARGUMENT)
        ELSE AllocRollback(
                AllocDispatch([w EXCEPT !.st.type = type, !.st.level = level],
                              type, fault))

\* The switch of CompressionFreeCompressor over state->type.
FreeDispatch(w, fault) ==
    CASE w.st.type = COMP_TYPE_BROTLI ->
            IF w.build.brotli
            THEN Ret(BrFreeCompressor(w), VNCMP_SUCCESS) ELSE Ret(w, VNCMP_SUCCESS)
      [] w.st.type \in {COMP_TYPE_DEFLATE, COMP_TYPE_GZIP} ->
            IF w.build.zlib
            THEN DeflateFreeCompressor(w, fault) ELSE Ret(w, VNCMP_SUCCESS)
      [] w.st.type = COMP_TYPE_ZSTD ->
            IF w.build.zstd
            THEN Ret(ZstdFreeCompressor(w), VNCMP_SUCCESS) ELSE Ret(w, VNCMP_SUCCESS)
      [] OTHER -> Ret(w, VNCMP_SUCCESS)

\* Fault seeding: a release that rejects a State with no compressor attached.
CompressionFreeCompressorStrict(w, p, fault) ==
    IF p = NULL THEN Ret(w, ERR_INVALID_PTR)
    ELSE IF w.st.type = COMP_TYPE_NONE THEN Ret(w, ERR_INVALID_ARGUMENT)
    ELSE LET f == FreeDispatch(w, fault)
         IN  Ret(stateClearCompressor(f), f.call.res)

\* int CompressionFreeCompressor(void* statePtr)
CompressionFreeCompressor(w, p, fault) ==
    IF p = NULL THEN Ret(w, ERR_INVALID_PTR)
    ELSE LET f == FreeDispatch(w, fault)
         IN  Ret(stateClearCompressor(f), f.call.res)

\* Fault seeding: a release of the State that leaves its compressor behind.
CompressionFreeStateNoDetach(w, p, fault) ==
    IF p = NULL THEN Ret(w, ERR_INVALID_PTR)
    ELSE Ret(stateMemFree(w, p), VNCMP_SUCCESS)

\* int CompressionFreeState(void* statePtr)
CompressionFreeState(w, p, fault) ==
    IF p = NULL THEN Ret(w, ERR_INVALID_PTR)
    ELSE LET c == IF w.st.type # COMP_TYPE_NONE
                  THEN CompressionFreeCompressor(w, p, fault)
                  ELSE Ret(w, VNCMP_SUCCESS)
             f == stateMemFree(c, p)
         IN  Ret(f, c.call.res)

\* _intPtrCast(int result): (void*)result, the int widened to the pointer's width
\* with its sign, so that a negative code is a pointer in the upper half.
intPtrCast(result) == result % U64

\* Fault seeding: a one-shot allocation that keeps the State when the compressor
\* could not be attached.
AllocateCompressorKeepsState(w0, type, level, oom, fault) ==
    LET s == CompressionAllocState(w0, oom)
    IN  IF s.call.res # VNCMP_SUCCESS THEN Ret(s, intPtrCast(s.call.res))
        ELSE LET c == CompressionAllocCompressor(s, s.self, type, level, fault)
             IN  IF c.call.res # VNCMP_SUCCESS
                 THEN Ret(c, intPtrCast(c.call.res))
                 ELSE Ret(c, c.self)

\* void* AllocateCompressor(CompressorType type, CompressionLevel level) (obsolete)
\* The pointer it returns is left in call.res.
AllocateCompressor(w0, type, level, oom, fault) ==
    LET s == CompressionAllocState(w0, oom)
    IN  IF s.call.res # VNCMP_SUCCESS THEN Ret(s, intPtrCast(s.call.res))
        ELSE LET c == CompressionAllocCompressor(s, s.self, type, level, fault)
             IN  IF c.call.res # VNCMP_SUCCESS
                 THEN Ret(CompressionFreeState(c, c.self, "none"),
                          intPtrCast(c.call.res))
                 ELSE Ret(c, c.self)

\* int FreeCompressor(void* compressor) (obsolete)
FreeCompressor(w, compressor, fault) == CompressionFreeState(w, compressor, fault)

(* ------------------------------------------------------------------ *)
(* The codec step (environment) and the adapters' CompressBlock        *)
(* ------------------------------------------------------------------ *)

\* What one codec step may do: consume cin bytes, produce cout bytes, and
\*   "ok"           report progress without finishing,
\*   "end"          report the stream finished / everything flushed,
\*   "error"        report a failure without progress,
\*   "corrupt_in",  leave a remaining-input (consumed) count beyond the span,
\*   "corrupt_out"  leave a remaining-output (produced) count beyond the span.
StepOutcomes ==
    {o \in [cin : 0..MaxLen, cout : 0..MaxLen,
            v : {"ok", "end", "error", "corrupt_in", "corrupt_out"}] :
        o.v \in {"error", "corrupt_in", "corrupt_out"} => (o.cin = 0 /\ o.cout = 0)}

\* Clear the result read/written fields
ClearResults(w) == [w EXCEPT !.o.bytesRead = 0, !.o.bytesWritten = 0]

\* Fault seeding: the no-op test also asks for an empty output span.
IsNoOpNeedsEmptyOutput(o) == o.bytesInLength = 0 /\ o.bytesOutLength = 0 /\ o.flush < 1

\* if (operation->bytesInLength == 0 && operation->flush < 1)
IsNoOp(o) == o.bytesInLength = 0 /\ o.flush < 1

Step(w, finish, wrote) ==
    [w EXCEPT !.call.step = TRUE, !.call.finish = finish, !.call.wrote = wrote]

\* zlib's deflate(stream, flush) on the z_stream in w.be
deflate(w0, flush, out) ==
    LET w == Step(w0, flush = Z_FINISH, 0)
        z == w.be
    IN  IF \/ z.next_out = NULL
           \/ (z.avail_in # 0 /\ z.next_in = NULL)
           \/ (z.status = "FINISH" /\ flush # Z_FINISH)
        THEN Ret([w EXCEPT !.call.stepErr = TRUE], Z_STREAM_ERROR)
        ELSE CASE out.v = "corrupt_in" ->
                    Ret([w EXCEPT !.be.avail_in = (@ + 1) % U32], Z_OK)
               [] out.v = "corrupt_out" ->
                    Ret([w EXCEPT !.be.avail_out = (@ + 1) % U32], Z_OK)
               [] out.v = "error" -> Ret(w, Z_BUF_ERROR)
               [] OTHER ->
                    LET cin  == IF z.status = "FINISH" THEN 0 ELSE out.cin
                        cout == IF z.status = "FINISH" THEN 0 ELSE out.cout
                        \* the step that ends a stream writes its last bytes
                        done == flush = Z_FINISH /\ cin = z.avail_in
                                  /\ ((out.v = "end" /\ cout > 0) \/ z.status = "FINISH")
                        moved == [Step(w, flush = Z_FINISH, cout)
                                     EXCEPT !.be.avail_in = @ - cin,
                                            !.be.avail_out = @ - cout]
                    IN  IF done THEN Ret([moved EXCEPT !.be.status = "FINISH"], Z_STREAM_END)
                        ELSE IF cin = 0 /\ cout = 0 THEN Ret(moved, Z_BUF_ERROR)
                        ELSE Ret([moved EXCEPT !.be.status = "BUSY"], Z_OK)

\* if (stream->avail_in > operation->bytesInLength || stream->avail_out > operation->bytesOutLength)
DeflateOverflow(w) ==
    w.be.avail_in > w.o.bytesInLength \/ w.be.avail_out > w.o.bytesOutLength

\* Fault seeding: a compress call that leaves the stream's cursors on the spans.
DeflateCompressBlockKeepsCursors(w0, out) ==
    LET w == ClearResults(w0)
    IN  IF IsNoOp(w.o) THEN Ret(w, VNCMP_SUCCESS)
        ELSE
        LET s == [w EXCEPT !.be.avail_in = w.o.bytesInLength,
                           !.be.next_in = w.o.bytesIn,
                           !.be.avail_out = w.o.bytesOutLength,
                           !.be.next_out = w.o.bytesOut]
            d == deflate(s, IF w.o.flush # 0 THEN Z_FINISH ELSE Z_NO_FLUSH, out)
            c == d
        IN  IF DeflateOverflow(c) THEN Ret(c, ERR_COMPRESSION_FAILED)
            ELSE Ret([c EXCEPT !.o.bytesRead = Sub32(w.o.bytesInLength, c.be.avail_in),
                               !.o.bytesWritten = Sub32(w.o.bytesOutLength, c.be.avail_out),
                               !.be.avail_in = 0,
                               !.be.avail_out = 0],
                     d.call.res)

\* int DeflateCompressBlock(const comp_state_t* state, CompressionOperation* operation)
DeflateCompressBlock(w0, out) ==
    LET w == ClearResults(w0)
    IN  IF IsNoOp(w.o) THEN Ret(w, VNCMP_SUCCESS)
        ELSE
        LET s == [w EXCEPT !.be.avail_in = w.o.bytesInLength,
                           !.be.next_in = w.o.bytesIn,
                           !.be.avail_out = w.o.bytesOutLength,
                           !.be.next_out = w.o.bytesOut]
            d == deflate(s, IF w.o.flush # 0 THEN Z_FINISH ELSE Z_NO_FLUSH, out)
            c == [d EXCEPT !.be.next_in = NULL, !.be.next_out = NULL]
        IN  IF DeflateOverflow(c) THEN Ret(c, ERR_COMPRESSION_FAILED)
            ELSE Ret([c EXCEPT !.o.bytesRead = Sub32(w.o.bytesInLength, c.be.avail_in),
                               !.o.bytesWritten = Sub32(w.o.bytesOutLength, c.be.avail_out),
                               !.be.avail_in = 0,
                               !.be.avail_out = 0],
                     d.call.res)

\* The statements of DeflateCompressBlock before the deflate call: the result
\* fields cleared, the stream's cursors set from the operation.
DeflateSetCursors(w0) ==
    LET w == ClearResults(w0)
    IN  [w EXCEPT !.be.avail_in = w.o.bytesInLength,
                  !.be.next_in = w.o.bytesIn,
                  !.be.avail_out = w.o.bytesOutLength,
                  !.be.next_out = w.o.bytesOut]

\* The statements of DeflateCompressBlock after the deflate call, whose result
\* is in d.call.res: the cursors cleared, the overflow guard, the result fields
\* computed from what the stream has left.
DeflateReadCursors(d) ==
    LET c == [d EXCEPT !.be.next_in = NULL, !.be.next_out = NULL]
    IN  IF DeflateOverflow(c) THEN Ret(c, ERR_COMPRESSION_FAILED)
        ELSE Ret([c EXCEPT !.o.bytesRead = Sub32(d.o.bytesInLength, c.be.avail_in),
                           !.o.bytesWritten = Sub32(d.o.bytesOutLength, c.be.avail_out),
                           !.be.avail_in = 0,
                           !.be.avail_out = 0],
                 d.call.res)

\* A codec step whose cursors are call-local (brotli, zstd): how many bytes it
\* consumed and produced, and whether it failed or finished.
LocalStep(w, finish, out, dead) ==
    LET cin  == IF dead \/ out.v \notin {"ok", "end"} THEN 0 ELSE out.cin
        cout == IF dead \/ out.v \notin {"ok", "end"} THEN 0 ELSE out.cout
        fail == out.v = "error" \/ (dead /\ (~finish \/ w.o.bytesInLength > 0))
        \* the step that ends a stream writes its last bytes
        done == ~fail /\ finish /\ cin = w.o.bytesInLength
                  /\ ((out.v = "end" /\ cout > 0) \/ dead)
    IN  [cin |-> cin, cout |-> cout, fail |-> fail, done |-> done,
         status |-> IF fail THEN w.be.status
                    ELSE IF done THEN "FINISH" ELSE "BUSY"]

\* BrotliEncoderCompressStream(enc, op, &availableIn, &nextIn, &availableOut, &nextOut, &totalOut)
BrotliEncoderCompressStream(w, finish, out) ==
    LET r == LocalStep(w, finish, out, w.be.status = "FINISH")
        ain  == w.o.bytesInLength
        aout == w.o.bytesOutLength
    IN  [Step(w, finish, r.cout) EXCEPT
            !.be.status = r.status,
            !.call.stepErr = r.fail,
            !.loc = [ain  |-> IF out.v = "corrupt_in" THEN ain + 1 ELSE ain - r.cin,
                     aout |-> IF out.v = "corrupt_out" THEN aout + 1 ELSE aout - r.cout,
                     r    |-> IF r.fail THEN 0 ELSE 1,
                     err  |-> r.fail]]

\* if (availableIn > operation->bytesInLength || availableOut > operation->bytesOutLength)
BrOverflow(w) ==
    w.loc.ain > w.o.bytesInLength \/ w.loc.aout > w.o.bytesOutLength

\* int BrCompressBlock(const comp_state_t* state, CompressionOperation* operation)
BrCompressBlock(w0, out) ==
    IF w0.self = NULL THEN Ret(w0, ERR_INVALID_PTR)
    ELSE IF w0.st.compressor = NULL THEN Ret(w0, ERR_BR_INVALID_STATE)
    ELSE
    LET w == ClearResults(w0)
    IN  IF IsNoOp(w.o) THEN Ret(w, VNCMP_SUCCESS)
        ELSE
        LET c == BrotliEncoderCompressStream(w, w.o.flush # 0, out)
        IN  IF BrOverflow(c) THEN Ret(c, ERR_COMPRESSION_FAILED)
            ELSE Ret([c EXCEPT !.o.bytesRead = Sub32(w.o.bytesInLength, c.loc.ain % U32),
                               !.o.bytesWritten = Sub32(w.o.bytesOutLength, c.loc.aout % U32)],
                     c.loc.r)

\* The remaining-work hint ZSTD_compressStream2 returns while data is left to flush.
ZstdHint == 2

\* ZSTD_compressStream2(stream, &output, &input, directive)
ZSTD_compressStream2(w, finish, out) ==
    LET r == LocalStep(w, finish, out, FALSE)
    IN  [Step(w, finish, r.cout) EXCEPT
            !.be.status = r.status,
            !.call.stepErr = r.fail,
            !.loc = [ain  |-> IF out.v = "corrupt_in" THEN w.o.bytesInLength + 1 ELSE r.cin,
                     aout |-> IF out.v = "corrupt_out" THEN w.o.bytesOutLength + 1 ELSE r.cout,
                     r    |-> IF r.done \/ (~finish /\ out.v = "end") THEN 0 ELSE ZstdHint,
                     err  |-> r.fail]]

\* if (input.pos > operation->bytesInLength || output.pos > operation->bytesOutLength)
ZstdOverflow(w) ==
    w.loc.ain > w.o.bytesInLength \/ w.loc.aout > w.o.bytesOutLength

\* Fault seeding: the finished flag is never looked at.
ZstdAlreadyFinishedNever(w) == FALSE

\* if (operation->flush && (streamState->flags & STREAM_FLAG_FINISHED))
ZstdAlreadyFinished(w) ==
    w.o.flush # 0 /\ (w.be.flags % 2) = STREAM_FLAG_FINISHED

\* int ZstdCompressBlock(const comp_state_t* state, CompressionOperation* operation)
ZstdCompressBlock(w0, out) ==
    LET w == ClearResults(w0)
    IN  IF IsNoOp(w.o) THEN Ret(w, VNCMP_SUCCESS)
        ELSE IF ZstdAlreadyFinished(w) THEN Ret(w, VNCMP_SUCCESS)
        ELSE
        LET c == ZSTD_compressStream2(w, w.o.flush # 0, out)
        IN  IF c.loc.err THEN Ret(c, ERR_ZSTD_COMPRESSION_FAILED)
            ELSE IF ZstdOverflow(c) THEN Ret(c, ERR_COMPRESSION_FAILED)
            ELSE Ret([c EXCEPT !.o.bytesRead = c.loc.ain % U32,
                               !.o.bytesWritten = c.loc.aout % U32,
                               !.be.flags = IF w.o.flush # 0 /\ c.loc.r = 0
                                            THEN STREAM_FLAG_FINISHED ELSE @],
                     c.loc.r)

(* ------------------------------------------------------------------ *)
(* Facade: CompressBlock, GetCompressedSize and the accessors          *)
(* ------------------------------------------------------------------ *)

\* The switch of CompressBlock over comp->type.
BlockDispatch(w, out) ==
    CASE w.st.type = COMP_TYPE_BROTLI ->
            IF w.build.brotli THEN BrCompressBlock(w, out)
            ELSE Ret(w, ERR_COMP_TYPE_NOT_SUPPORTED)
      [] w.st.type \in {COMP_TYPE_DEFLATE, COMP_TYPE_GZIP} ->
            IF w.build.zlib THEN DeflateCompressBlock(w, out)
            ELSE Ret(w, ERR_COMP_TYPE_NOT_SUPPORTED)
      [] w.st.type = COMP_TYPE_ZSTD ->
            IF w.build.zstd THEN ZstdCompressBlock(w, out)
            ELSE Ret(w, ERR_COMP_TYPE_NOT_SUPPORTED)
      [] OTHER -> Ret(w, ERR_COMP_TYPE_NOT_SUPPORTED)

\* Fault seeding: the output span is not validated.
CompressBlockNoOutputCheck(w0, p, opPtr, out) ==
    LET w == [w0 EXCEPT !.call.opPtr = opPtr]
    IN
    IF p = NULL THEN Ret(w, ERR_INVALID_PTR)
    ELSE IF opPtr = NULL THEN Ret(w, ERR_INVALID_PTR)
    ELSE IF w.o.bytesInLength > 0 /\ w.o.bytesIn = NULL THEN Ret(w, ERR_INVALID_INPUT_DATA)
    ELSE BlockDispatch(w, out)

\* Fault seeding: the result fields are cleared before the type switch.
CompressBlockClearsFirst(w0, p, opPtr, out) ==
    LET w == [w0 EXCEPT !.call.opPtr = opPtr]
    IN
    IF p = NULL THEN Ret(w, ERR_INVALID_PTR)
    ELSE IF opPtr = NULL THEN Ret(w, ERR_INVALID_PTR)
    ELSE IF w.o.bytesInLength > 0 /\ w.o.bytesIn = NULL THEN Ret(w, ERR_INVALID_INPUT_DATA)
    ELSE IF w.o.bytesOutLength > 0 /\ w.o.bytesOut = NULL THEN Ret(w, ERR_INVALID_OUTPUT_DATA)
    ELSE BlockDispatch(ClearResults(w), out)

\* int CompressBlock(const void* compressor, CompressionOperation* operation)
CompressBlock(w0, p, opPtr, out) ==
    LET w == [w0 EXCEPT !.call.opPtr = opPtr]
    IN
    IF p = NULL THEN Ret(w, ERR_INVALID_PTR)
    ELSE IF opPtr = NULL THEN Ret(w, ERR_INVALID_PTR)
    ELSE IF w.o.bytesInLength > 0 /\ w.o.bytesIn = NULL THEN Ret(w, ERR_INVALID_INPUT_DATA)
    ELSE IF w.o.bytesOutLength > 0 /\ w.o.bytesOut = NULL THEN Ret(w, ERR_INVALID_OUTPUT_DATA)
    ELSE BlockDispatch(w, out)

\* zlib's deflateBound for the default window and memory level:
\* the stored-block bound plus the wrapper (none for raw deflate, 18 for gzip)
deflateBound(be, len) ==
    (len + (len \div 4096) + (len \div 16384) + (len \div (2 ^ 25)) + 7
         + (IF be.window = GZ_ENABLE_GZIP_WINDOW THEN 18 ELSE 0)) % U64

\* Fault seeding: a size function that asks zlib for the bound of an empty input too.
DeflateGetCompressedSizeNoZeroCheck(w, len, flush) ==
    LET compressedSize == deflateBound(w.be, len)
    IN  IF compressedSize > INT64_MAX THEN ERR_GZ_OVERFLOW ELSE compressedSize

\* int64_t DeflateGetCompressedSize(const comp_state_t* state, uint64_t length, int32_t flush)
DeflateGetCompressedSize(w, len, flush) ==
    IF len <= 0 THEN 0
    ELSE LET compressedSize == deflateBound(w.be, len)
         IN  IF compressedSize > INT64_MAX THEN ERR_GZ_OVERFLOW ELSE compressedSize

\* BrotliEncoderMaxCompressedSize
BrotliEncoderMaxCompressedSize(len) ==
    LET result == (len + 2 + 4 * (len \div 16384) + 3 + 1) % U64
    IN  IF len = 0 THEN 2 ELSE IF result < len THEN 0 ELSE result

\* int64_t BrGetCompressedSize(const comp_state_t* state, uint64_t length, int32_t flush)
BrGetCompressedSize(w, len, flush) ==
    IF w.self = NULL THEN ERR_INVALID_PTR
    ELSE IF w.st.compressor = NULL THEN ERR_BR_INVALID_STATE
    ELSE IF len <= 0 THEN 0
    ELSE LET size == BrotliEncoderMaxCompressedSize(len)
         IN  IF size > INT64_MAX THEN ERR_OVERFLOW ELSE size

\* ZSTD_compressBound and ZSTD_CStreamOutSize
ZSTD_compressBound(len) ==
    (len + (len \div 256)
         + (IF len < 131072 THEN (131072 - len) \div 2048 ELSE 0)) % U64
ZSTD_CStreamOutSize == ZSTD_compressBound(131072) + 3 + 4

\* int64_t ZstdGetCompressedSize(const comp_state_t* state, uint64_t length, int32_t flush)
ZstdGetCompressedSize(w, len, flush) ==
    IF len <= 0 THEN 0
    ELSE LET compressedSize ==
                 (ZSTD_compressBound(len)
                    + (IF flush # 0 THEN ZSTD_CStreamOutSize ELSE 0)) % U64
         IN  IF compressedSize > INT64_MAX THEN ERR_OVERFLOW ELSE compressedSize

\* The switch of GetCompressedSize over comp->type.
SizeDispatch(w, len, flush) ==
    CASE w.st.type = COMP_TYPE_BROTLI ->
            IF w.build.brotli THEN BrGetCompressedSize(w, len, flush)
            ELSE ERR_COMP_TYPE_NOT_SUPPORTED
      [] w.st.type \in {COMP_TYPE_DEFLATE, COMP_TYPE_GZIP} ->
            IF w.build.zlib THEN DeflateGetCompressedSize(w, len, flush)
            ELSE ERR_COMP_TYPE_NOT_SUPPORTED
      [] w.st.type = COMP_TYPE_ZSTD ->
            IF w.build.zstd THEN ZstdGetCompressedSize(w, len, flush)
            ELSE ERR_COMP_TYPE_NOT_SUPPORTED
      [] OTHER -> ERR_COMP_TYPE_NOT_SUPPORTED

\* int64_t GetCompressedSize(const void* compressor, uint64_t inputLength, int32_t flush)
GetCompressedSize(w0, p, inputLength, flush) ==
    LET w == [w0 EXCEPT !.call.len = inputLength, !.call.flush = flush]
    IN  IF p = NULL THEN Ret(w, ERR_INVALID_PTR)
        ELSE IF inputLength > INT64_MAX THEN Ret(w, ERR_OUT_OF_BOUNDS)
        ELSE Ret([w EXCEPT !.call.sized = w.st.type \in GetSupportedCompressors],
                 SizeDispatch(w, inputLength, flush))

\* CompressorType GetCompressorType(const void* compressor)
GetCompressorType(w, p) == IF p = NULL THEN Ret(w, ERR_INVALID_PTR) ELSE Ret(w, w.st.type)

\* CompressionLevel GetCompressorLevel(const void* compressor)
GetCompressorLevel(w, p) == IF p = NULL THEN Ret(w, ERR_INVALID_PTR) ELSE Ret(w, w.st.level)

\* int64_t GetCompressorBlockSize(const void* compressor)
GetCompressorBlockSize(w, p) ==
    IF p = NULL THEN Ret(w, ERR_INVALID_PTR) ELSE Ret(w, w.st.blockSize)

(* ------------------------------------------------------------------ *)
(* The caller: inputs of the calls                                     *)
(* ------------------------------------------------------------------ *)

\* What the result fields of an operation struct may hold before a call: zero,
\* or whatever an earlier use of the struct left there (a count of a larger span).
Stale == MaxLen + 1

\* The operation struct as the caller fills it in; pre is what its two result
\* fields hold when the call starts.
Operation(bi, bo, fl, il, ol, pre) ==
    [bytesIn |-> bi, bytesOut |-> bo, flush |-> fl,
     bytesInLength |-> il, bytesOutLength |-> ol,
     bytesRead |-> pre, bytesWritten |-> pre]

\* The inputs the lifetime specification draws the calls' arguments from: every
\* type, level and fault of allocation and release, and compress calls that move
\* the codec stream through its positions.
LifeInputs ==
    [types    |-> {COMP_TYPE_NONE, COMP_TYPE_GZIP, COMP_TYPE_DEFLATE, 3,
                   COMP_TYPE_BROTLI, COMP_TYPE_ZSTD},
     levels   |-> {-1, COMP_LEVEL_OPTIMAL, COMP_LEVEL_NO_COMPRESSION, 9, 10, 15},
     allocFaults |-> AllocFaults,
     freeFaults  |-> FreeFaults,
     flushes  |-> {0, 1},
     inPtrs   |-> {CallerIn},
     outPtrs  |-> {CallerOut},
     lengths  |-> {MaxLen},
     verdicts |-> {"ok", "end"},
     stales   |-> {Stale},
     sizes    |-> {MaxLen}]

\* The inputs the block specification draws from: one compressor per adapter,
\* and every shape of operation and of codec outcome.
BlockInputs ==
    [types    |-> {COMP_TYPE_GZIP, COMP_TYPE_BROTLI, COMP_TYPE_ZSTD},
     levels   |-> {COMP_LEVEL_OPTIMAL},
     allocFaults |-> {"none"},
     freeFaults  |-> {"none"},
     flushes  |-> {-1, 0, 1},
     inPtrs   |-> {NULL, CallerIn},
     outPtrs  |-> {NULL, CallerOut},
     lengths  |-> {0, MaxLen},
     verdicts |-> {"ok", "end", "error", "corrupt_in", "corrupt_out"},
     stales   |-> {0, Stale},
     sizes    |-> {0, MaxLen, INT64_MAX, INT64_MAX + 1}]

(* ------------------------------------------------------------------ *)
(* Actions: one per facade operation                                   *)
(* ------------------------------------------------------------------ *)

\* One State as its caller sees it: the handle, the comp_state_t, its codec, the
\* operation struct of its last compress call and the record of its last call.
NoInstance ==
    [sp |-> NULL, st |-> ZeroState, be |-> NoBackend, o |-> ZeroOp, last |-> Call("Init", 0)]

\* No second State, and the first State alone on a heap of its own.
NoPair == [b |-> NoInstance, solo |-> NoInstance, soloHeap |-> {}]

\* The two threads, and a thread between calls: pc is the statement it is at, o its
\* own operation struct, call the record of its call, r the local result, stepIn
\* the input count the stream held when the thread's codec step began, lone
\* whether no other call was in progress during its call. raced: two calls have
\* been in progress at once.
Threads == {1, 2}
NoThread ==
    [pc |-> "idle", o |-> ZeroOp, call |-> Call("Init", 0), fault |-> "none",
     r |-> 0, stepIn |-> 0, lone |-> TRUE]
NoThreads == [t |-> [i \in Threads |-> NoThread], raced |-> FALSE]

Init ==
    /\ statePtr = NULL
    /\ state = ZeroState
    /\ heap = {}
    /\ backend = NoBackend
    /\ op = ZeroOp
    /\ last = Call("Init", 0)
    /\ build = FullBuild
    /\ pair = NoPair
    /\ threads = NoThreads

\* The effect of a call that takes no operation struct.
Apply(w) ==
    /\ state' = w.st
    /\ heap' = w.heap
    /\ backend' = w.be
    /\ op' = ZeroOp
    /\ last' = w.call
    /\ build' = build /\ pair' = pair /\ threads' = threads

\* In every action the caller passes the handle it holds: NULL while it holds
\* no State. A fault or a codec outcome is drawn only where the call reaches
\* the allocation or the codec step it belongs to.

DoAllocState ==
    /\ statePtr = NULL
    /\ \E oom \in BOOLEAN :
         \E w \in {CompressionAllocState(World("CompressionAllocState"), oom)} :
             Apply(w) /\ statePtr' = w.self

DoAllocState2 ==
    /\ statePtr = NULL
    /\ \E alloc \in {NullFn, UserAlloc}, free \in {NullFn, UserFree}, oom \in BOOLEAN :
         /\ oom => (alloc # NullFn /\ free # NullFn)
         /\ \E w \in {CompressionAllocState2(World("CompressionAllocState2"),
                                             alloc, free, UserCtx, oom)} :
                Apply(w) /\ statePtr' = w.self

DoFreeState(I) ==
    \E fault \in I.freeFaults :
        /\ fault # "none" => backend.kind = "zlib"
        /\ \E w \in {CompressionFreeState(World("CompressionFreeState"), statePtr, fault)} :
               \* the State is gone and the caller drops the handle
               Apply([w EXCEPT !.st = ZeroState]) /\ statePtr' = NULL

DoAllocCompressor(I) ==
    \E type \in I.types, level \in I.levels, fault \in I.allocFaults :
        /\ fault # "none" =>
              /\ statePtr # NULL /\ ~AlreadyAllocated(state)
              /\ level \in 0..9 /\ type \in GetSupportedCompressors
        /\ \E w \in {CompressionAllocCompressor(World("CompressionAllocCompressor"),
                                                statePtr, type, level, fault)} :
               Apply(w) /\ statePtr' = statePtr

DoFreeCompressor(I) ==
    \E fault \in I.freeFaults :
        /\ fault # "none" => backend.kind = "zlib"
        /\ \E w \in {CompressionFreeCompressor(World("CompressionFreeCompressor"),
                                               statePtr, fault)} :
               Apply(w) /\ statePtr' = statePtr

\* The codec outcomes of a call on the operation x: all of them when the call
\* reaches the codec step, else the one that is never looked at.
NoOutcome == [cin |-> 0, cout |-> 0, v |-> "ok"]
OutcomesOf(I, x) ==
    IF CompressBlock([World("CompressBlock") EXCEPT !.o = x],
                     statePtr, CallerOp, NoOutcome).call.step
    THEN {o \in StepOutcomes : /\ o.v \in I.verdicts
                               /\ o.cin <= x.bytesInLength
                               /\ o.cout <= x.bytesOutLength}
    ELSE {NoOutcome}

DoCompressBlock(I) ==
    \E bi \in I.inPtrs, bo \in I.outPtrs, fl \in I.flushes,
       il \in I.lengths, ol \in I.lengths, pre \in I.stales :
        \E out \in OutcomesOf(I, Operation(bi, bo, fl, il, ol, pre)) :
            \E w \in {CompressBlock([World("CompressBlock") EXCEPT
                                        !.o = Operation(bi, bo, fl, il, ol, pre)],
                                    statePtr, CallerOp, out)} :
                /\ state' = w.st /\ heap' = w.heap /\ backend' = w.be
                /\ op' = w.o /\ last' = w.call
                /\ statePtr' = statePtr /\ build' = build /\ pair' = pair
                /\ threads' = threads

\* CompressBlock(state, NULL): there is no operation struct.
DoCompressBlockNullOp ==
    \E w \in {CompressBlock(World("CompressBlock"), statePtr, NULL, NoOutcome)} :
        Apply(w) /\ statePtr' = statePtr

DoGetCompressedSize(I) ==
    \E len \in I.sizes, fl \in I.flushes :
        \E w \in {GetCompressedSize(World("GetCompressedSize"), statePtr, len, fl)} :
            Apply(w) /\ statePtr' = statePtr

DoGetCompressorType ==
    \E w \in {GetCompressorType(World("GetCompressorType"), statePtr)} :
        Apply(w) /\ statePtr' = statePtr

DoGetCompressorLevel ==
    \E w \in {GetCompressorLevel(World("GetCompressorLevel"), statePtr)} :
        Apply(w) /\ statePtr' = statePtr

DoGetCompressorBlockSize ==
    \E w \in {GetCompressorBlockSize(World("GetCompressorBlockSize"), statePtr)} :
        Apply(w) /\ statePtr' = statePtr

(* ------------------------------------------------------------------ *)
(* Specifications                                                      *)
(* ------------------------------------------------------------------ *)

\* The lifetime of a State and of its compressor.
Next ==
    \/ DoAllocState
    \/ DoAllocState2
    \/ DoFreeState(LifeInputs)
    \/ DoAllocCompressor(LifeInputs)
    \/ DoFreeCompressor(LifeInputs)
    \/ DoCompressBlock(LifeInputs)
    \/ DoCompressBlockNullOp
    \/ DoGetCompressedSize(LifeInputs)
    \/ DoGetCompressorType
    \/ DoGetCompressorLevel
    \/ DoGetCompressorBlockSize

Spec == Init /\ [][Next]_vars

\* Compress calls of every shape on a State bound to the default allocator.
BlockNext ==
    \/ DoAllocState
    \/ DoFreeState(BlockInputs)
    \/ DoAllocCompressor(BlockInputs)
    \/ DoFreeCompressor(BlockInputs)
    \/ DoCompressBlock(BlockInputs)
    \/ DoCompressBlockNullOp
    \/ DoGetCompressedSize(BlockInputs)
    \/ DoGetCompressorType
    \/ DoGetCompressorLevel
    \/ DoGetCompressorBlockSize

BlockSpec == Init /\ [][BlockNext]_vars

\* The lifetime calls in every build of the library.
BuildInit ==
    /\ statePtr = NULL
    /\ state = ZeroState
    /\ heap = {}
    /\ backend = NoBackend
    /\ op = ZeroOp
    /\ last = Call("Init", 0)
    /\ build \in Builds
    /\ pair = NoPair
    /\ threads = NoThreads

BuildSpec == BuildInit /\ [][Next]_vars

\* The obsolete one-shot entries. AllocateCompressor takes no State: the caller
\* that holds none calls it, keeps the returned pointer when it is a State and
\* holds nothing when it is not.
DoAllocateCompressor ==
    /\ statePtr = NULL
    /\ \E type \in LifeInputs.types, level \in LifeInputs.levels,
          oom \in BOOLEAN, fault \in LifeInputs.allocFaults :
         /\ fault # "none" =>
               /\ ~oom /\ level \in 0..9 /\ type \in GetSupportedCompressors
         /\ \E w \in {AllocateCompressor(World("AllocateCompressor"),
                                         type, level, oom, fault)} :
                /\ Apply(IF w.call.res \in Ids(w.heap) THEN w
                         ELSE [w EXCEPT !.st = ZeroState])
                /\ statePtr' = IF w.call.res \in Ids(w.heap) THEN w.call.res ELSE NULL

DoFreeCompressorObsolete ==
    \E fault \in LifeInputs.freeFaults :
        /\ fault # "none" => backend.kind = "zlib"
        /\ \E w \in {FreeCompressor(World("FreeCompressor"), statePtr, fault)} :
               Apply([w EXCEPT !.st = ZeroState]) /\ statePtr' = NULL

\* The lifetime of a compressor made by the obsolete entries.
ObsoleteNext ==
    \/ DoAllocateCompressor
    \/ DoFreeCompressorObsolete
    \/ DoCompressBlock(LifeInputs)
    \/ DoGetCompressedSize(LifeInputs)
    \/ DoGetCompressorType
    \/ DoGetCompressorLevel
    \/ DoGetCompressorBlockSize

ObsoleteSpec == Init /\ [][ObsoleteNext]_vars

\* Two threads on one State, with no serialization: a call is a sequence of steps,
\* each the statements between two accesses to the State or the stream that
\* another thread can come between. The threads attach a Gzip compressor and
\* compress with it; the first passes 1 byte and the second MaxLen.
Quiet == \A t \in Threads : threads.t[t].pc = "idle"

\* The world of thread t's call in progress.
ThreadWorld(t) ==
    [WorldOf(threads.t[t].call.op, statePtr, state, heap, backend, threads.t[t].o)
        EXCEPT !.call = threads.t[t].call]

\* Thread t enters a call: it overlaps the call in progress of the other, if any.
Enter(t, pc, w, fault) ==
    LET busy == \E u \in Threads \ {t} : threads.t[u].pc # "idle"
    IN  [threads EXCEPT
            !.raced = @ \/ busy,
            !.t = [u \in Threads |->
                      IF u = t THEN [pc |-> pc, o |-> w.o, call |-> w.call, fault |-> fault,
                                     r |-> w.call.res, stepIn |-> 0, lone |-> ~busy]
                      ELSE [threads.t[u] EXCEPT !.lone = @ /\ ~busy]]]

\* Thread t goes on to pc in the world w.
Goto(t, pc, w) ==
    [threads EXCEPT !.t[t].pc = pc, !.t[t].o = w.o, !.t[t].call = w.call,
                    !.t[t].r = w.call.res]

\* What a step leaves in the State, the heap and the codec instance.
Shared(w) ==
    /\ state' = w.st /\ heap' = w.heap /\ backend' = w.be
    /\ statePtr' = statePtr /\ build' = build /\ pair' = pair

\* What the caller sees when the call of a thread returns, or while it runs.
Returned(w) == last' = w.call /\ op' = w.o
Running == last' = last /\ op' = op

\* CompressionAllocCompressor, the argument checks: CHECK_NULL_PTR, the level, and
\* if (state->type != COMP_TYPE_NONE || state->compressor)
ThreadAllocCheck(t) ==
    /\ threads.t[t].pc = "idle" /\ statePtr # NULL
    /\ Cardinality(heap) <= MaxLive
    /\ \E fault \in {"none", "oom1"} :
         \E w \in {[WorldOf("CompressionAllocCompressor", statePtr, state, heap, backend, ZeroOp)
                       EXCEPT !.call.type = COMP_TYPE_GZIP,
                              !.call.level = COMP_LEVEL_OPTIMAL]} :
            IF AlreadyAllocated(state)
            THEN /\ threads' = Enter(t, "idle", Ret(w, ERR_INVALID_ARGUMENT), fault)
                 /\ Shared(w) /\ Returned(Ret(w, ERR_INVALID_ARGUMENT))
            ELSE /\ threads' = Enter(t, "alloc_write", w, fault)
                 /\ Shared(w) /\ Running

\* state->type = type; state->level = level;
ThreadAllocWrite(t) ==
    /\ threads.t[t].pc = "alloc_write"
    /\ \E w \in {[ThreadWorld(t) EXCEPT !.st.type = threads.t[t].call.type,
                                        !.st.level = threads.t[t].call.level]} :
          threads' = Goto(t, "alloc_dispatch", w) /\ Shared(w) /\ Running

\* switch (type): result = DeflateAllocCompressor(state);
ThreadAllocDispatch(t) ==
    /\ threads.t[t].pc = "alloc_dispatch"
    /\ \E w \in {AllocDispatch(ThreadWorld(t), threads.t[t].call.type, threads.t[t].fault)} :
          threads' = Goto(t, "alloc_return", w) /\ Shared(w) /\ Running

\* if (result != VNCMP_SUCCESS) _stateClearCompressor(state); return result;
ThreadAllocReturn(t) ==
    /\ threads.t[t].pc = "alloc_return"
    /\ \E w \in {AllocRollback(ThreadWorld(t))} :
          threads' = Goto(t, "idle", w) /\ Shared(w) /\ Returned(w)

\* The operation thread t compresses.
ThreadOp(t) ==
    Operation(CallerIn, CallerOut, 0, IF t = 1 THEN 1 ELSE MaxLen, MaxLen, 0)

\* CompressBlock on the attached Gzip compressor, up to the deflate call: the
\* operation passes the facade's checks and is not a no-op.
ThreadCompressSet(t) ==
    /\ threads.t[t].pc = "idle" /\ statePtr # NULL
    /\ state.compressor # NULL /\ backend.kind = "zlib"
    /\ \E w \in {DeflateSetCursors(
                    [WorldOf("CompressBlock", statePtr, state, heap, backend, ThreadOp(t))
                        EXCEPT !.call.opPtr = CallerOp])} :
          threads' = Enter(t, "compress_step", w, "none") /\ Shared(w) /\ Running

\* result = deflate(stream, operation->flush ? Z_FINISH : Z_NO_FLUSH); the codec
\* takes what the stream's counts offer it.
ThreadCompressStep(t) ==
    /\ threads.t[t].pc = "compress_step"
    /\ \E out \in {o \in StepOutcomes :
                      /\ o.v = "ok"
                      /\ o.cin = (IF backend.avail_in <= MaxLen THEN backend.avail_in ELSE 0)
                      /\ o.cout = (IF backend.avail_out > 0 THEN 1 ELSE 0)} :
         \E w \in {deflate(ThreadWorld(t),
                           IF threads.t[t].o.flush # 0 THEN Z_FINISH ELSE Z_NO_FLUSH, out)} :
            /\ threads' = [Goto(t, "compress_return", w) EXCEPT
                              !.t[t].stepIn = backend.avail_in]
            /\ Shared(w) /\ Running

\* The statements after the deflate call, and the return.
ThreadCompressReturn(t) ==
    /\ threads.t[t].pc = "compress_return"
    /\ \E w \in {DeflateReadCursors(ThreadWorld(t))} :
          threads' = Goto(t, "idle", w) /\ Shared(w) /\ Returned(w)

\* FreeCompressor, called while no other call is in progress.
ThreadFree ==
    /\ Quiet /\ statePtr # NULL
    /\ \E w \in {CompressionFreeCompressor(World("CompressionFreeCompressor"),
                                           statePtr, "none")} :
          Apply(w) /\ statePtr' = statePtr

RaceNext ==
    \/ DoAllocState
    \/ \E t \in Threads : ThreadAllocCheck(t)
    \/ \E t \in Threads : ThreadAllocWrite(t)
    \/ \E t \in Threads : ThreadAllocDispatch(t)
    \/ \E t \in Threads : ThreadAllocReturn(t)
    \/ \E t \in Threads : ThreadCompressSet(t)
    \/ \E t \in Threads : ThreadCompressStep(t)
    \/ \E t \in Threads : ThreadCompressReturn(t)
    \/ ThreadFree

RaceSpec == Init /\ [][RaceNext]_vars

\* Two States on one allocator. A call is a facade function with its arguments,
\* the allocator fault and the codec outcome it meets.
NoCall ==
    [name |-> "none", type |-> COMP_TYPE_NONE, level |-> COMP_LEVEL_OPTIMAL,
     fault |-> "none", o |-> ZeroOp, out |-> NoOutcome]

PairCalls ==
    {[NoCall EXCEPT !.name = n] :
        n \in {"CompressionAllocState", "CompressionFreeCompressor", "CompressionFreeState"}}
    \cup {[NoCall EXCEPT !.name = "CompressionAllocCompressor", !.type = t, !.fault = f] :
             t \in {COMP_TYPE_GZIP, COMP_TYPE_ZSTD}, f \in {"none", "oom2"}}
    \cup {[NoCall EXCEPT !.name = "CompressBlock",
                         !.o = Operation(CallerIn, CallerOut, fl, MaxLen, MaxLen, 0),
                         !.out = out] :
             fl \in {0, 1}, out \in {[cin |-> MaxLen, cout |-> 1, v |-> "end"]}}

\* The calls made on the second State: one compressor, brought up, used to the
\* end of its stream, and released.
PeerCalls ==
    {c \in PairCalls : c.fault = "none" /\ c.type \in {COMP_TYPE_NONE, COMP_TYPE_ZSTD}}

\* The call c made by the caller that holds the handle sp, in the world w.
Run(w, sp, c) ==
    CASE c.name = "CompressionAllocState" -> CompressionAllocState(w, FALSE)
      [] c.name = "CompressionAllocCompressor" ->
            CompressionAllocCompressor(w, sp, c.type, c.level, c.fault)
      [] c.name = "CompressionFreeCompressor" -> CompressionFreeCompressor(w, sp, c.fault)
      [] c.name = "CompressionFreeState" -> CompressionFreeState(w, sp, c.fault)
      [] OTHER -> CompressBlock([w EXCEPT !.o = c.o], sp, CallerOp, c.out)

\* What the caller that held sp holds after the call: the handle AllocState
\* wrote, none after FreeState, and the operation struct of a compress call.
Held(w, sp, c) ==
    [sp |-> CASE c.name = "CompressionAllocState" -> w.self
              [] c.name = "CompressionFreeState" -> NULL
              [] OTHER -> sp,
     st |-> IF c.name = "CompressionFreeState" THEN ZeroState ELSE w.st,
     be |-> w.be,
     o  |-> IF c.name = "CompressBlock" THEN w.o ELSE ZeroOp,
     last |-> w.call]

\* The calls the caller of the instance x makes: AllocState while it holds no
\* handle, the others on the handle it holds; a fault only where the call reaches
\* the allocation it belongs to.
CallsOf(x, calls) ==
    {c \in calls :
        /\ (c.name = "CompressionAllocState") <=> (x.sp = NULL)
        /\ c.fault # "none" => ~AlreadyAllocated(x.st)}

\* A call on the first State, made as well in the run where that State is alone.
DoPairA ==
    \E c \in CallsOf([sp |-> statePtr, st |-> state], PairCalls) :
        \E w \in {Run(WorldOf(c.name, statePtr, state, heap, backend, op), statePtr, c)},
           v \in {Run(WorldOf(c.name, pair.solo.sp, pair.solo.st, pair.soloHeap,
                              pair.solo.be, pair.solo.o), pair.solo.sp, c)} :
            LET a == Held(w, statePtr, c)
            IN  /\ statePtr' = a.sp /\ state' = a.st /\ backend' = a.be
                /\ op' = a.o /\ last' = a.last
                /\ heap' = w.heap
                /\ pair' = [pair EXCEPT !.solo = Held(v, pair.solo.sp, c),
                                        !.soloHeap = v.heap]
                /\ build' = build /\ threads' = threads

\* A call on the second State.
DoPairB ==
    \E c \in CallsOf(pair.b, PeerCalls) :
        \E w \in {Run(WorldOf(c.name, pair.b.sp, pair.b.st, heap, pair.b.be, pair.b.o),
                       pair.b.sp, c)} :
            /\ pair' = [pair EXCEPT !.b = Held(w, pair.b.sp, c)]
            /\ heap' = w.heap
            /\ UNCHANGED <<statePtr, state, backend, op, last, build, threads>>

PairNext == DoPairA \/ DoPairB

PairSpec == Init /\ [][PairNext]_vars

(* ------------------------------------------------------------------ *)
(* The State machine of one State                                      *)
(* ------------------------------------------------------------------ *)

\* Idle: type = None, no backend. Active: a backend attached.
Idle(st) == st.type = COMP_TYPE_NONE
Active(st) == st.type # COMP_TYPE_NONE

\* The four fields AllocateCompressor and FreeCompressor manage.
Fields(st) == <<st.type, st.level, st.blockSize, st.compressor>>

\* The detached form _stateClearCompressor leaves.
Detached(st) == Fields(st) = <<COMP_TYPE_NONE, COMP_LEVEL_OPTIMAL, 0, NULL>>

\* What AllocateCompressor(Gzip, Optimal) would return on the State st at sp,
\* the allocator willing.
AllocProbeOf(sp, st, h, be) ==
    CompressionAllocCompressor(WorldOf("CompressionAllocCompressor", sp, st, h, be, ZeroOp),
                               sp, COMP_TYPE_GZIP, COMP_LEVEL_OPTIMAL, "none").call.res
AllocProbe == AllocProbeOf(statePtr, state, heap, backend)

\* What a CompressBlock of a full input span with flush would do on the State st
\* at sp.
BlockProbeOf(sp, st, h, be) ==
    LET r == CompressBlock(WorldOf("CompressBlock", sp, st, h, be,
                                   Operation(CallerIn, CallerOut, 1, MaxLen, MaxLen, 0)),
                           sp, CallerOp, [cin |-> MaxLen, cout |-> 1, v |-> "end"])
    IN  [res |-> r.call.res, step |-> r.call.step, handle |-> r.call.handle,
         o |-> r.o, be |-> r.be]
BlockProbe == BlockProbeOf(statePtr, state, heap, backend)

(* ------------------------------------------------------------------ *)
(* C1 .. C8: lifetime of the compressor and of the State               *)
(* ------------------------------------------------------------------ *)

\* C1: at the return of every facade operation the State's backend handle is
\* non-null if and only if its type is not None.
C1_HandleIffType ==
    (state.compressor # NULL) <=> (state.type # COMP_TYPE_NONE)

C1_Witness ==
    /\ last.op = "CompressionAllocCompressor"
    /\ last.res = VNCMP_SUCCESS
    /\ state.type = COMP_TYPE_ZSTD
    /\ state.compressor # NULL

\* C2: type, level, blockSize and handle change only from Idle to Active by a
\* successful AllocateCompressor and from Active to Idle by FreeCompressor or
\* FreeState; CompressBlock, GetCompressedSize and the accessors never change them.
C2_FieldsChangeOnlyByAllocAndFree ==
    [][Fields(state') # Fields(state) =>
         \/ /\ last'.op = "CompressionAllocCompressor"
            /\ last'.res = VNCMP_SUCCESS
            /\ Idle(state) /\ Active(state')
         \/ /\ last'.op \in {"CompressionFreeCompressor", "CompressionFreeState"}
            /\ Active(state) /\ Idle(state')]_vars

C2_Witness ==
    /\ last.op = "CompressBlock"
    /\ last.res = ERR_COMPRESSION_FAILED
    /\ Active(state)
    /\ state.blockSize = ZSTD_CStreamInSize

\* C3: AllocateCompressor on a State with a compressor attached, for any type and
\* any level in [0,9], returns InvalidArgument and changes neither the State nor
\* the backend instance, so a following CompressBlock does what it would have done.
C3_SecondAllocRejected ==
    [][(last'.op = "CompressionAllocCompressor" /\ Active(state) /\ last'.level \in 0..9) =>
         /\ last'.res = ERR_INVALID_ARGUMENT
         /\ Fields(state') = Fields(state)
         /\ backend' = backend /\ heap' = heap
         /\ BlockProbeOf(statePtr', state', heap', backend') = BlockProbe
         /\ BlockProbeOf(statePtr', state', heap', backend').handle = state.compressor]_vars

C3_Witness ==
    /\ last.op = "CompressionAllocCompressor"
    /\ last.wasActive
    /\ last.res = ERR_INVALID_ARGUMENT
    /\ last.type \notin GetSupportedCompressors
    /\ backend.status = "BUSY"
    /\ BlockProbe.step

\* C4: whenever AllocateCompressor on an Idle State fails, the State is back in
\* the detached form when the call returns, and an AllocateCompressor with a
\* valid type and level on it succeeds.
C4_FailedAllocLeavesDetached ==
    [][(last'.op = "CompressionAllocCompressor" /\ statePtr # NULL /\ Idle(state)
          /\ last'.res # VNCMP_SUCCESS) =>
         /\ Detached(state')
         /\ AllocProbeOf(statePtr', state', heap', backend') = VNCMP_SUCCESS]_vars

C4_Witness ==
    /\ last.op = "CompressionAllocCompressor"
    /\ ~last.wasActive
    /\ last.res = ERR_OUT_OF_MEMORY
    /\ last.allocs # {}
    /\ last.level = 9
    /\ Detached(state)

\* C5: after AllocateCompressor and FreeCompressor, for every compiled-in type and
\* accepted level and after any number of such cycles, the State is Idle in the
\* detached form, the only live allocation is the State itself as before the
\* first AllocateCompressor, and an AllocateCompressor on it succeeds.
C5_IdleHoldsNoBackendMemory ==
    (statePtr # NULL /\ Idle(state)) =>
        /\ Detached(state)
        /\ backend = NoBackend
        /\ Ids(heap) = {statePtr}
        /\ AllocProbe = VNCMP_SUCCESS

C5_Witness ==
    /\ last.op = "CompressionFreeCompressor"
    /\ last.wasActive
    /\ last.handle # NULL /\ last.res = VNCMP_SUCCESS
    /\ Cardinality(last.frees) = 3
    /\ \A f \in last.frees : f.live
    /\ Idle(state) /\ Ids(heap) = {statePtr}

\* C6: FreeCompressor always leaves the State in the detached form with the
\* backend's memory released, whatever the backend's release reports, a deflate
\* termination error included.
C6_FreeAlwaysDetaches ==
    [][(last'.op = "CompressionFreeCompressor" /\ statePtr # NULL) =>
         /\ Detached(state')
         /\ backend' = NoBackend
         /\ Ids(heap') = {statePtr}
         /\ (Active(state) => \E f \in last'.frees : f.id = state.compressor /\ f.live)]_vars

C6_Witness ==
    /\ last.op = "CompressionFreeCompressor"
    /\ last.wasActive
    /\ last.res = 0
    /\ Detached(state)
    /\ Ids(heap) = {statePtr}

\* C7: FreeCompressor on an Idle State returns VNCMP_SUCCESS, invokes no backend
\* release and changes nothing, so a second FreeCompressor in a row succeeds and
\* leaves the State as the first left it.
C7_FreeIsIdempotent ==
    [][(last'.op = "CompressionFreeCompressor" /\ statePtr # NULL /\ Idle(state)) =>
         /\ last'.res = VNCMP_SUCCESS
         /\ last'.nfree = 0 /\ last'.frees = {}
         /\ state' = state /\ heap' = heap /\ backend' = backend]_vars

C7_Witness ==
    /\ last.op = "CompressionFreeCompressor"
    /\ statePtr # NULL
    /\ ~last.wasActive
    /\ last.res = VNCMP_SUCCESS
    /\ last.nfree = 0

\* C8: FreeState is accepted on an Idle and on an Active State; on an Active one
\* the backend's release runs once, and the State's own block is released after
\* it, exactly once and whatever the detach returned; nothing stays live.
C8_FreeStateReleasesAll ==
    [][(last'.op = "CompressionFreeState" /\ statePtr # NULL) =>
         /\ last'.nfree = (IF Active(state) THEN 1 ELSE 0)
         /\ \E f \in last'.frees :
               /\ f.id = statePtr /\ f.live
               /\ f.n = Cardinality(last'.frees)
               /\ \A g \in last'.frees : g.id = statePtr => g = f
         /\ \A f \in last'.frees : f.live
         /\ heap' = {}
         /\ statePtr' = NULL]_vars

C8_Witness ==
    /\ last.op = "CompressionFreeState"
    /\ last.wasActive
    /\ last.res = 0
    /\ last.nfree = 1
    /\ Cardinality(last.frees) = 4
    /\ heap = {}

(* ------------------------------------------------------------------ *)
(* C9, C10: the result fields of CompressBlock                         *)
(* ------------------------------------------------------------------ *)

\* C9: after every CompressBlock return bytesRead <= bytesInLength and
\* bytesWritten <= bytesOutLength, and a call whose codec step left a count
\* beyond a span returns CompressionFailed with both fields zero.
C9_ResultsWithinSpans ==
    (last.op = "CompressBlock" /\ last.opPtr # NULL) =>
        /\ op.bytesRead <= op.bytesInLength
        /\ op.bytesWritten <= op.bytesOutLength
        /\ last.res = ERR_COMPRESSION_FAILED => (op.bytesRead = 0 /\ op.bytesWritten = 0)

C11_ResultsResetAtStart ==
    (last.op = "CompressBlock" /\ last.opPtr # NULL) =>
        /\ op.bytesRead # Stale /\ op.bytesWritten # Stale
        /\ ~last.step => (op.bytesRead = 0 /\ op.bytesWritten = 0)

\* C12: CompressBlock returns InvalidPtr for a null State or a null operation,
\* else InvalidInputData for bytesInLength > 0 with bytesIn null, else
\* InvalidOutputData for bytesOutLength > 0 with bytesOut null; a call so
\* rejected reaches no codec step and changes neither the State, nor the codec
\* stream, nor the heap.
C12_ValidationBeforeBackend ==
    [][last'.op = "CompressBlock" =>
         LET nullPtr == statePtr = NULL \/ last'.opPtr = NULL
             badIn   == op'.bytesInLength > 0 /\ op'.bytesIn = NULL
             badOut  == op'.bytesOutLength > 0 /\ op'.bytesOut = NULL
         IN  /\ nullPtr => last'.res = ERR_INVALID_PTR
             /\ (~nullPtr /\ badIn) => last'.res = ERR_INVALID_INPUT_DATA
             /\ (~nullPtr /\ ~badIn /\ badOut) => last'.res = ERR_INVALID_OUTPUT_DATA
             /\ (nullPtr \/ badIn \/ badOut) =>
                   /\ ~last'.step /\ last'.wrote = 0
                   /\ state' = state /\ backend' = backend /\ heap' = heap
             /\ last'.res \in {ERR_INVALID_PTR, ERR_INVALID_INPUT_DATA,
                               ERR_INVALID_OUTPUT_DATA} => (nullPtr \/ badIn \/ badOut)]_vars

C12_Witness ==
    /\ last.op = "CompressBlock" /\ last.opPtr # NULL
    /\ last.wasActive
    /\ last.res = ERR_INVALID_OUTPUT_DATA
    /\ op.bytesInLength = MaxLen /\ op.bytesIn # NULL
    /\ backend.status = "BUSY"

\* C13: the sign of the return value tells success from failure: an operation in
\* which the codec step, the codec's termination or the allocator reported a
\* failure returns a negative code.
C13_SignDiscriminates ==
    (last.stepErr \/ last.endErr \/ last.nulls > 0) => last.res < 0

\* C14: when the compression step of a backend reports an error, CompressBlock
\* returns CompressionFailed, and bytesRead/bytesWritten hold the progress known
\* or the reset value 0.
C14_StepErrorIsCompressionFailed ==
    (last.op = "CompressBlock" /\ last.stepErr) =>
        /\ last.res = ERR_COMPRESSION_FAILED
        /\ op.bytesRead <= op.bytesInLength
        /\ op.bytesWritten <= op.bytesOutLength

\* C15: FreeCompressor on a Deflate/Gzip compressor returns success when the
\* stream's termination reports a clean result or the data-error warning, and an
\* error code for any other termination result; in every case the stream memory
\* is released and the handle cleared.
C15_DeflateFreeSurfacesError ==
    [][(last'.op = "CompressionFreeCompressor" /\ statePtr # NULL
          /\ state.type \in {COMP_TYPE_GZIP, COMP_TYPE_DEFLATE}) =>
         /\ ~last'.endErr => last'.res = VNCMP_SUCCESS
         /\ last'.endErr => last'.res < 0
         /\ state'.compressor = NULL
         /\ \E f \in last'.frees : f.id = state.compressor /\ f.live
         /\ Ids(heap') = {statePtr}]_vars

(* ------------------------------------------------------------------ *)
(* C16 .. C20: allocation failures, the allocator pair, level checks   *)
(* ------------------------------------------------------------------ *)

\* The three calls that allocate.
AllocatingCalls ==
    {"CompressionAllocState", "CompressionAllocState2", "CompressionAllocCompressor"}

\* C16: whenever the allocator returns null during AllocateState or at any
\* allocation step of AllocateCompressor (wrapper, codec context, codec-internal
\* buffers), the call returns OutOfMemory (-2), every block the call allocated
\* before has been released again, and nothing half-built is reachable: no State
\* handle is handed out by AllocateState, and the State of AllocateCompressor is
\* detached with no codec instance.
C16_NullAllocationIsOutOfMemory ==
    [][(last'.op \in AllocatingCalls /\ last'.nulls > 0) =>
          /\ last'.res = ERR_OUT_OF_MEMORY
          /\ heap' = heap
          /\ statePtr' = statePtr
          /\ last'.op = "CompressionAllocCompressor" =>
                (Detached(state') /\ backend' = NoBackend)]_vars

\* C17: every allocation and every release a call makes on behalf of a State (the
\* State itself, the codec handle, the codec's internal blocks, for every
\* backend) goes through the allocator pair bound to that State, with the
\* State's opaque context. The State a call acts on is the one the caller holds,
\* or the one AllocateState has just built. The default pair and the library's
\* own vnmalloc/vnfree are the same allocator.
C17_StateAllocatorEverywhere ==
    [][LET st == IF statePtr # NULL THEN state ELSE state'
           same(fn, bound) == \/ fn = bound
                              \/ fn = UtilMalloc /\ bound = VnMalloc
                              \/ fn = UtilFree /\ bound = VnFree
       IN  /\ \A b \in last'.allocs : same(b.fn, st.allocFunc) /\ b.opaque = st.memOpaque
           /\ \A f \in last'.frees : same(f.fn, st.freeFunc) /\ f.opaque = st.memOpaque]_vars

\* C18: for every level outside [0,9], the negative ones included, AllocateCompressor
\* on a State returns CompLevelNotSupported (-10) without reaching any backend (no
\* allocation, no release, no codec initialised) and without changing any field of
\* the State: an Idle State stays Idle, and nothing changes on the heap.
C18_LevelOutOfRangeRejected ==
    [][(last'.op = "CompressionAllocCompressor" /\ statePtr # NULL
           /\ last'.level \notin 0..9) =>
          /\ last'.res = ERR_COMP_LEVEL_NOT_SUPPORTED
          /\ last'.ninit = 0 /\ last'.nfree = 0
          /\ last'.allocs = {} /\ last'.frees = {}
          /\ state' = state /\ backend' = backend /\ heap' = heap]_vars

\* AllocateCompressor(Gzip, 15) on an Idle State was rejected with -10.
C18_Witness ==
    /\ last.op = "CompressionAllocCompressor" /\ statePtr # NULL
    /\ last.type = COMP_TYPE_GZIP /\ last.level = 15
    /\ ~last.wasActive /\ Idle(state)
    /\ last.res = ERR_COMP_LEVEL_NOT_SUPPORTED

\* C19: AllocateCompressor(Brotli, NoCompression) on an Idle State returns
\* CompLevelNotSupported (-10); no encoder instance is created during the call
\* (no allocation is made, no codec is initialised), and on return the State is
\* Idle with type None and a null handle.
C19_BrotliNoCompressionRejected ==
    [][(last'.op = "CompressionAllocCompressor" /\ statePtr # NULL /\ Idle(state)
           /\ state.compressor = NULL
           /\ last'.type = COMP_TYPE_BROTLI
           /\ last'.level = COMP_LEVEL_NO_COMPRESSION) =>
          /\ last'.res = ERR_COMP_LEVEL_NOT_SUPPORTED
          /\ last'.ninit = 0 /\ last'.allocs = {}
          /\ Detached(state') /\ backend' = NoBackend /\ heap' = heap]_vars

\* AllocateCompressor(Brotli, NoCompression) on an Idle State was rejected.
C19_Witness ==
    /\ last.op = "CompressionAllocCompressor" /\ statePtr # NULL
    /\ last.type = COMP_TYPE_BROTLI /\ last.level = COMP_LEVEL_NO_COMPRESSION
    /\ ~last.wasActive /\ last.handle = NULL
    /\ last.res = ERR_COMP_LEVEL_NOT_SUPPORTED
    /\ Idle(state) /\ state.compressor = NULL

\* C20: AllocateState takes the allocator pair as optional. With neither alloc nor
\* free supplied it binds the default pair and succeeds; with both supplied it
\* binds them; it returns InvalidArgument (-4) if and only if exactly one of the
\* two is supplied; it returns OutOfMemory (-2) if the allocation of the State
\* fails. CompressionAllocState is the entry that takes no pair.
C20_AllocatorPairOptional ==
    [][(last'.op \in {"CompressionAllocState", "CompressionAllocState2"}
           /\ statePtr = NULL) =>
          LET plain    == last'.op = "CompressionAllocState"
              supplied == IF plain THEN 0
                          ELSE (IF last'.alloc # NullFn THEN 1 ELSE 0)
                               + (IF last'.free # NullFn THEN 1 ELSE 0)
              bound(a, f) == /\ last'.res = VNCMP_SUCCESS
                             /\ statePtr' # NULL
                             /\ state'.allocFunc = a /\ state'.freeFunc = f
                             /\ Detached(state')
          IN  /\ (last'.res = ERR_INVALID_ARGUMENT) <=> (supplied = 1)
              /\ (supplied = 0 /\ last'.nulls = 0) => bound(VnMalloc, VnFree)
              /\ (supplied = 2 /\ last'.nulls = 0) => bound(last'.alloc, last'.free)
              /\ last'.nulls > 0 => (last'.res = ERR_OUT_OF_MEMORY /\ statePtr' = NULL)]_vars

(* ------------------------------------------------------------------ *)
(* C21 .. C30: size bounds, flush, the one-shot entries                *)
(* ------------------------------------------------------------------ *)

\* C21: GetCompressedSize on a State rejects every inputLength above the largest
\* signed 64-bit value with Overflow (-14), without reaching an adapter's size
\* function and without changing the State, its codec or the heap.
C21_OversizeIsOverflow ==
    [][(last'.op = "GetCompressedSize" /\ statePtr # NULL /\ last'.len > INT64_MAX) =>
          /\ last'.res = ERR_OVERFLOW
          /\ ~last'.sized
          /\ state' = state /\ backend' = backend /\ heap' = heap]_vars

\* C22 as stated: GetCompressedSize returns 0 whenever inputLength = 0, for every
\* non-null State handle and every flush value.
C22_ZeroLengthAsStated ==
    (last.op = "GetCompressedSize" /\ statePtr # NULL /\ last.len = 0) => last.res = 0

\* C22 as amended: on a State with a compressor attached GetCompressedSize
\* returns 0 whenever inputLength = 0, for every flush value, and the bound of the
\* codec (never 0, at least the input length when it is a size) is returned only
\* for an inputLength above 0; on a State with no compressor attached the call
\* returns CompTypeNotSupported (-9), for an empty input too. Nothing is changed.
C22_ZeroLengthOnActive ==
    [][(last'.op = "GetCompressedSize" /\ statePtr # NULL /\ last'.len <= INT64_MAX) =>
          /\ (Active(state) /\ last'.len = 0) => last'.res = 0
          /\ (Active(state) /\ last'.len > 0) =>
                (last'.res # 0 /\ (last'.res > 0 => last'.res >= last'.len))
          /\ Idle(state) => last'.res = ERR_COMP_TYPE_NOT_SUPPORTED
          /\ last'.sized = Active(state)
          /\ state' = state /\ backend' = backend /\ heap' = heap]_vars

\* GetCompressedSize(state, 0, 1) on a Gzip compressor returned 0.
C22_Witness ==
    /\ last.op = "GetCompressedSize" /\ statePtr # NULL
    /\ state.type = COMP_TYPE_GZIP /\ last.wasActive /\ last.sized
    /\ last.len = 0 /\ last.flush = 1 /\ last.res = 0

\* A CompressBlock call on an operation struct whose spans pass the validation of
\* the facade.
ValidSpans(o) ==
    /\ ~(o.bytesInLength > 0 /\ o.bytesIn = NULL)
    /\ ~(o.bytesOutLength > 0 /\ o.bytesOut = NULL)

\* The Zstd stream of the attached compressor has been finished.
ZstdFinished(st, be) ==
    st.type = COMP_TYPE_ZSTD /\ be.kind = "zstd" /\ (be.flags % 2) = STREAM_FLAG_FINISHED

\* C23 as stated: on a Zstd compressor, once a CompressBlock call with flush set
\* has returned zero remaining work, every later CompressBlock call with flush
\* set on that compressor returns success with bytesRead = bytesWritten = 0 and
\* does not invoke the Zstd compress step.
C23_FinishedAsStated ==
    [][/\ (last'.op = "CompressBlock" /\ state.type = COMP_TYPE_ZSTD /\ last'.step
              /\ op'.flush # 0 /\ last'.res = 0) => ZstdFinished(state', backend')
       /\ (ZstdFinished(state, backend) /\ last'.op = "CompressBlock"
              /\ last'.opPtr # NULL /\ op'.flush # 0) =>
             /\ last'.res = VNCMP_SUCCESS
             /\ op'.bytesRead = 0 /\ op'.bytesWritten = 0
             /\ ~last'.step /\ backend' = backend]_vars

\* C23 as amended: the same, for the later calls whose spans pass validation; the
\* flag stays set until the compressor is released.
C23_FinishedOnValidSpans ==
    [][/\ (last'.op = "CompressBlock" /\ state.type = COMP_TYPE_ZSTD /\ last'.step
              /\ op'.flush # 0 /\ last'.res = 0) => ZstdFinished(state', backend')
       /\ (ZstdFinished(state, backend) /\ last'.op = "CompressBlock"
              /\ last'.opPtr # NULL /\ op'.flush # 0 /\ ValidSpans(op')) =>
             /\ last'.res = VNCMP_SUCCESS
             /\ op'.bytesRead = 0 /\ op'.bytesWritten = 0
             /\ ~last'.step /\ backend' = backend
       /\ (ZstdFinished(state, backend)
              /\ last'.op \notin {"CompressionFreeCompressor", "CompressionFreeState"}) =>
             ZstdFinished(state', backend')]_vars

\* A flush call with a full input span on a finished Zstd stream returned success
\* without a codec step.
C23_Witness ==
    /\ last.op = "CompressBlock" /\ last.opPtr # NULL
    /\ ZstdFinished(state, backend)
    /\ op.flush = 1 /\ op.bytesInLength = MaxLen /\ op.bytesOutLength = MaxLen
    /\ ~last.step /\ last.res = VNCMP_SUCCESS
    /\ op.bytesRead = 0 /\ op.bytesWritten = 0

\* The four algorithms, and the codec each one attaches.
SingleTypes == {COMP_TYPE_GZIP, COMP_TYPE_DEFLATE, COMP_TYPE_BROTLI, COMP_TYPE_ZSTD}
CodecOf(type) ==
    CASE type \in {COMP_TYPE_GZIP, COMP_TYPE_DEFLATE} -> "zlib"
      [] type = COMP_TYPE_BROTLI -> "brotli"
      [] type = COMP_TYPE_ZSTD -> "zstd"
      [] OTHER -> "none"

\* C24 as stated: AllocateCompressor on an Idle State succeeds only when type is
\* exactly one of Gzip, Deflate, Brotli, Zstd and is among the compressors the
\* build supports, and then the State holds that one algorithm; for type None, a
\* type not compiled in, or a value combining several bits it returns
\* CompTypeNotSupported (-9) and the State stays Idle.
C24_OneAlgorithmAsStated ==
    [][(last'.op = "CompressionAllocCompressor" /\ statePtr # NULL
           /\ Idle(state) /\ state.compressor = NULL) =>
          LET one == last'.type \in SingleTypes /\ last'.type \in GetSupportedCompressors
          IN  /\ last'.res = VNCMP_SUCCESS =>
                    /\ one
                    /\ state'.type = last'.type /\ backend'.kind = CodecOf(last'.type)
              /\ ~one => (last'.res = ERR_COMP_TYPE_NOT_SUPPORTED /\ Detached(state'))]_vars

\* C24 as amended: the same, the rejection with -9 being that of a call whose
\* level is in [0,9]; it is made without any allocation and leaves the State
\* detached and the heap as it was.
C24_OneAlgorithm ==
    [][(last'.op = "CompressionAllocCompressor" /\ statePtr # NULL
           /\ Idle(state) /\ state.compressor = NULL) =>
          LET one == last'.type \in SingleTypes /\ last'.type \in GetSupportedCompressors
          IN  /\ last'.res = VNCMP_SUCCESS =>
                    /\ one
                    /\ state'.type = last'.type /\ backend'.kind = CodecOf(last'.type)
              /\ (~one /\ last'.level \in 0..9) =>
                    /\ last'.res = ERR_COMP_TYPE_NOT_SUPPORTED
                    /\ last'.allocs = {} /\ last'.ninit = 0
                    /\ Detached(state') /\ backend' = NoBackend /\ heap' = heap
              /\ (~one /\ last'.level \notin 0..9) =>
                    (last'.res = ERR_COMP_LEVEL_NOT_SUPPORTED /\ Detached(state'))]_vars

\* AllocateCompressor(Brotli, Optimal) in a build without the Brotli adapter was
\* rejected with -9 and the State is Idle.
C24_Witness ==
    /\ last.op = "CompressionAllocCompressor" /\ statePtr # NULL
    /\ ~build.brotli /\ build.zlib
    /\ last.type = COMP_TYPE_BROTLI /\ last.level = COMP_LEVEL_OPTIMAL
    /\ ~last.wasActive
    /\ last.res = ERR_COMP_TYPE_NOT_SUPPORTED /\ Detached(state)

\* The blocks a State owns: the comp_state_t, the handle, and what the codec
\* allocated for it.
Blocks(x) == ({x.sp, x.st.compressor, x.be.stream} \cup x.be.internal) \ {NULL}

\* The first State as an instance.
First == [sp |-> statePtr, st |-> state, be |-> backend, o |-> op, last |-> last]

\* What a caller can observe of an instance, addresses aside: the fields of the
\* State, the position of its codec stream, the operation struct, and the result
\* and the effects of its last call.
Observed(x) ==
    [held |-> x.sp # NULL,
     st |-> [x.st EXCEPT !.compressor = (@ # NULL)],
     be |-> [x.be EXCEPT !.internal = Cardinality(@), !.stream = (@ # NULL),
                         !.libOpaque = (@ # NULL)],
     o |-> x.o,
     last |-> [x.last EXCEPT !.handle = (@ # NULL),
                             !.allocs = {b.kind : b \in @},
                             !.frees = {<<f.n, f.live, f.fn>> : f \in @}]]

C26_FlushIsBinary ==
    [][(last'.op = "CompressBlock" /\ last'.opPtr # NULL /\ statePtr # NULL
           /\ Active(state) /\ ValidSpans(op') /\ ~ZstdFinished(state, backend)) =>
          /\ op'.flush # 0 => (last'.step /\ last'.finish)
          /\ op'.flush = 0 => (last'.step => ~last'.finish)]_vars

\* C27: the obsolete one-shot AllocateCompressor returns a pointer to the newly
\* allocated compressor instance on success, and NULL if the compressor could
\* not be allocated: what it returns is either the State it has just made, with
\* its compressor attached, or NULL.
C27_NullOnFailure ==
    last.op = "AllocateCompressor" =>
        \/ last.res = NULL
        \/ /\ last.res = statePtr /\ statePtr \in Ids(heap)
           /\ Active(state)

\* The causes of failure of a one-shot allocation that its record shows: an
\* allocation that returned NULL, a type that is not one supported algorithm, a
\* level out of range.
FailureCause(c) ==
    \/ c.nulls > 0
    \/ c.type \notin GetSupportedCompressors
    \/ c.level < 0 \/ c.level > 9
    \/ c.type = COMP_TYPE_BROTLI /\ c.level = COMP_LEVEL_NO_COMPRESSION

SizedBlock(N, out) ==
    LET size == GetCompressedSize(World("GetCompressedSize"), statePtr, N, 1).call.res
    IN  [size |-> size,
         w |-> CompressBlock([World("CompressBlock") EXCEPT
                                 !.o = Operation(CallerIn, CallerOut, 1, N,
                                                 IF size < 0 THEN 0 ELSE size % U32, 0)],
                             statePtr, CallerOp, out)]

\* C29: GetCompressedSize is a true upper bound. For every Active compressor at
\* the start of its stream and every input length N, GetCompressedSize(state, N, 1)
\* is a size, and the output span of that size is room enough for one
\* CompressBlock call with flush set: the codec, which can write up to the span's
\* length, can consume all N bytes (bytesRead = N) and finish the stream in that
\* call, which then reports success.
C29_BoundSuffices ==
    (statePtr # NULL /\ Active(state) /\ backend.status = "INIT") =>
        \A N \in {0, 1, MaxLen} :
            \E out \in StepOutcomes :
                LET b == SizedBlock(N, out)
                IN  /\ b.size >= 0
                    /\ out.cin <= N /\ out.cout <= b.size
                    /\ b.w.call.res >= 0
                    /\ b.w.o.bytesRead = N
                    /\ b.w.be.status = "FINISH"


(* ------------------------------------------------------------------ *)
(* C31 .. C39                                                          *)
(* ------------------------------------------------------------------ *)

\* The error codes of the shared registry, and the codes the backends register
\* as extensions to it.
SharedRegistry ==
    {ERR_INVALID_PTR, ERR_OUT_OF_MEMORY, ERR_OUT_OF_BOUNDS, ERR_INVALID_ARGUMENT,
     ERR_COMP_TYPE_NOT_SUPPORTED, ERR_COMP_LEVEL_NOT_SUPPORTED, ERR_INVALID_INPUT_DATA,
     ERR_INVALID_OUTPUT_DATA, ERR_COMPRESSION_FAILED, ERR_OVERFLOW}
BackendRegistry ==
    {ERR_GZ_INVALID_STATE, ERR_GZ_OVERFLOW, ERR_ZSTD_INVALID_STATE,
     ERR_ZSTD_COMPRESSION_FAILED, ERR_BR_INVALID_STATE}

\* C31: every negative value a facade operation returns is a code of the shared
\* registry or a registered backend extension code, and a negative value
\* identifies one cause: OutOfMemory (-2) is returned only by a call in which an
\* allocation returned null, and InvalidArgument (-4) only by a call whose
\* arguments were rejected (allocator functions missing, compressor already
\* attached) and in which neither an allocation nor the codec failed. A raw codec
\* status never comes back under the number of a shared code.
C31_NegativeIdentifiesCause ==
    last.res < 0 =>
        /\ last.res \in SharedRegistry \cup BackendRegistry
        /\ last.res = ERR_OUT_OF_MEMORY => last.nulls > 0
        /\ last.res = ERR_INVALID_ARGUMENT =>
              /\ last.nulls = 0 /\ ~last.stepErr /\ last.ninit = 0
              /\ \/ last.op = "CompressionAllocState2"
                 \/ last.op = "CompressionAllocCompressor" /\ last.wasActive


\* C32: after every Deflate/Gzip CompressBlock return that reached the codec step
\* (success, codec error or overflow-guard error) the stream's next_in and
\* next_out are null: between calls the stream refers to no buffer of the caller.
\* The Brotli and Zstd adapters keep their cursors in call-local variables: their
\* codec instance never holds a cursor.
C32_NoCursorRetained ==
    /\ (last.op = "CompressBlock" /\ last.step /\ backend.kind = "zlib") =>
          (backend.next_in = NULL /\ backend.next_out = NULL)
    /\ backend.kind \in {"brotli", "zstd"} =>
          /\ backend.next_in = NULL /\ backend.next_out = NULL
          /\ backend.avail_in = 0 /\ backend.avail_out = 0

\* A Gzip compress call with both spans set whose codec step left a count beyond
\* the span: the overflow guard fired.
C32_Witness ==
    /\ last.op = "CompressBlock" /\ last.step /\ backend.kind = "zlib"
    /\ last.res = ERR_COMPRESSION_FAILED
    /\ op.bytesIn = CallerIn /\ op.bytesOut = CallerOut


\* C33: the Brotli encoder's quality follows the level: Fastest gets a low
\* value, Optimal a high one, SmallestSize the maximum and any other accepted
\* level a mid value, so that quality(Fastest) < quality(other) <
\* quality(Optimal) <= quality(SmallestSize). Stated of the quality an attached
\* Brotli encoder was given for its State's level.
C33_BrotliQualityOrder ==
    (Active(state) /\ backend.kind = "brotli") =>
        LET q == backend.param
            mid == BrQuality(9)
        IN  /\ state.level = COMP_LEVEL_FASTEST => q < mid
            /\ state.level = COMP_LEVEL_OPTIMAL =>
                  (mid < q /\ q <= BrQuality(COMP_LEVEL_SMALLEST_SIZE))
            /\ state.level = COMP_LEVEL_SMALLEST_SIZE =>
                  \A l \in 0..9 : BrQuality(l) <= q
            /\ state.level \notin {COMP_LEVEL_FASTEST, COMP_LEVEL_OPTIMAL,
                                   COMP_LEVEL_SMALLEST_SIZE} =>
                  (BrQuality(COMP_LEVEL_FASTEST) < q /\ q < BrQuality(COMP_LEVEL_OPTIMAL))


\* The cursors thread t's codec step ran on were not the ones its call had set:
\* its result fields were computed from its own lengths and another operation's
\* counts.
WrongCursors(t) ==
    /\ threads.t[t].pc = "idle"
    /\ threads.t[t].call.op = "CompressBlock" /\ threads.t[t].call.step
    /\ threads.t[t].stepIn # threads.t[t].o.bytesInLength

\* A z_stream is live that the State does not refer to, with no call in progress.
Unreferenced ==
    /\ Quiet
    /\ \E b \in heap : b.kind = "z_stream" /\ b.id # state.compressor

\* C34: the core does no locking. With two threads on one State and nothing
\* between them, a CompressBlock on a Gzip compressor can run its codec step on
\* the cursors another call has set, and compute bytesRead/bytesWritten against
\* the wrong operation's lengths; two AllocateCompressor calls on one Idle State
\* can both pass the already-attached check and leave a backend handle
\* unreferenced. Neither happens to calls that are serialized: a call with the
\* wrong cursors overlapped another call, and a handle is unreferenced only after
\* two calls overlapped.
C34_OnlyUnserialized ==
    /\ \A t \in Threads : WrongCursors(t) => ~threads.t[t].lone
    /\ Unreferenced => threads.raced

\* Both have happened: a handle is unreferenced, and the second thread's call
\* returned success with bytesRead beyond the count its codec step was given.
C34_Witness ==
    /\ Unreferenced
    /\ WrongCursors(2)
    /\ threads.t[2].call.res >= 0
    /\ threads.t[2].o.bytesRead > threads.t[2].stepIn


\* C35: every block released through a State's free callback is released with
\* the opaque context value with which it was obtained from that State's alloc
\* callback: the State itself, the backend's wrapper and stream structs, and the
\* blocks the codec library allocates internally.
C35_SameOpaqueOnRelease ==
    [][LET st == IF statePtr # NULL THEN state ELSE state'
       IN  \A f \in last'.frees :
               \A b \in heap \cup last'.allocs :
                   (b.id = f.id /\ f.live /\ f.fn = st.freeFunc /\ b.fn = st.allocFunc)
                       => f.opaque = b.opaque]_vars


\* C36: over any sequence of AllocateCompressor, FreeCompressor and FreeState
\* calls, failed allocations included, every backend handle and wrapper block is
\* released at most once, and none is reachable after its release: every release
\* a call makes is of a live block, no call releases a block twice, and when a
\* call returns, the State's handle and the codec's stream and internal blocks
\* are null or live.
C36_ReleasedOnceNeverDangling ==
    [][/\ \A f \in last'.frees : f.live
       /\ \A f, g \in last'.frees : f.id = g.id => f = g
       /\ state'.compressor # NULL => state'.compressor \in Ids(heap')
       /\ backend'.stream # NULL => backend'.stream \in Ids(heap')
       /\ backend'.internal \subseteq Ids(heap')]_vars

\* The Zstd error path: the stream was created, its initialisation failed, the
\* adapter released the stream and the wrapper, and the State holds no handle.
C36_Witness ==
    /\ last.op = "CompressionAllocCompressor" /\ last.type = COMP_TYPE_ZSTD
    /\ last.res = ERR_ZSTD_COMPRESSION_FAILED
    /\ Cardinality(last.frees) = 2
    /\ state.compressor = NULL /\ backend = NoBackend


\* C37: whenever a backend's Alloc is entered through AllocateCompressor,
\* state.blockSize is 0 (AllocateState zeroes it, and so do every FreeCompressor
\* and every failed AllocateCompressor), so the Brotli encoder never gets a size
\* hint; blockSize is nonzero only while a Zstd compressor is attached.
C37_BlockSizeOnlyWithZstd ==
    [][/\ (last'.op = "CompressionAllocCompressor" /\ statePtr # NULL
             /\ last'.level \in 0..9 /\ ~AlreadyAllocated(state)) =>
              state.blockSize = 0
       /\ backend'.kind = "brotli" => backend'.sizeHint = 0
       /\ state'.blockSize # 0 =>
              (state'.type = COMP_TYPE_ZSTD /\ state'.compressor # NULL)
       /\ last'.op \in {"CompressionAllocState", "CompressionAllocState2",
                        "CompressionFreeCompressor"} => state'.blockSize = 0
       /\ (last'.op = "CompressionAllocCompressor" /\ ~last'.wasActive
             /\ last'.res # VNCMP_SUCCESS) => state'.blockSize = 0]_vars

\* A Brotli encoder attached to a State: no size hint was set.
C37_Witness ==
    /\ last.op = "CompressionAllocCompressor" /\ last.res = VNCMP_SUCCESS
    /\ state.type = COMP_TYPE_BROTLI /\ backend.kind = "brotli"
    /\ backend.sizeHint = 0


\* C38: on an Idle State (type = None), CompressBlock with a valid operation, the
\* zero-input, no-flush operation included, and GetCompressedSize with any
\* inputLength up to INT64_MAX, 0 included, return CompTypeNotSupported (-9): no
\* backend is invoked, and neither the State nor the operation's bytesRead and
\* bytesWritten are modified (the operation comes back as it was passed).
C38_IdleIsTypeNotSupported ==
    [][(statePtr # NULL /\ Idle(state)) =>
          /\ (last'.op = "CompressBlock" /\ last'.opPtr # NULL /\ ValidSpans(op')) =>
                /\ last'.res = ERR_COMP_TYPE_NOT_SUPPORTED
                /\ ~last'.step
                /\ state' = state /\ backend' = backend /\ heap' = heap
                /\ \A pre \in {0, Stale} :
                      LET x == [op' EXCEPT !.bytesRead = pre, !.bytesWritten = pre]
                      IN  CompressBlock([World("CompressBlock") EXCEPT !.o = x],
                                        statePtr, CallerOp, NoOutcome).o = x
          /\ (last'.op = "GetCompressedSize" /\ last'.len <= INT64_MAX) =>
                /\ last'.res = ERR_COMP_TYPE_NOT_SUPPORTED
                /\ ~last'.sized
                /\ state' = state /\ backend' = backend /\ heap' = heap]_vars

\* The zero-input, no-flush operation on an Idle State: -9, and the result fields
\* still hold what the caller had left in them.
C38_Witness ==
    /\ statePtr # NULL /\ Idle(state)
    /\ last.op = "CompressBlock" /\ last.opPtr # NULL
    /\ last.res = ERR_COMP_TYPE_NOT_SUPPORTED
    /\ op.bytesInLength = 0 /\ op.flush = 0
    /\ op.bytesRead = Stale /\ op.bytesWritten = Stale


\* The flag part of C39: the stream-finished flag is clear after every successful
\* AllocateCompressor, is set only by a CompressBlock call with flush set whose
\* compress step returned 0, and stays set while the compressor is attached.
ZstdFlagLifetime ==
    /\ (last'.op = "CompressionAllocCompressor" /\ last'.res = VNCMP_SUCCESS) =>
          ~ZstdFinished(state', backend')
    /\ (~ZstdFinished(state, backend) /\ ZstdFinished(state', backend')) =>
          /\ last'.op = "CompressBlock" /\ last'.opPtr # NULL
          /\ state.type = COMP_TYPE_ZSTD /\ state'.compressor = state.compressor
          /\ op'.flush # 0 /\ last'.step /\ last'.res = 0
    /\ (ZstdFinished(state, backend) /\ ~ZstdFinished(state', backend')) =>
          last'.op \in {"CompressionFreeCompressor", "CompressionFreeState"}

\* C39 as stated: the Zstd stream-finished flag is clear after every successful
\* AllocateCompressor, is set only by a flush call whose compress step returned 0
\* without error, and is never cleared while the compressor stays attached; once
\* it is set, a flush call carrying non-empty input returns success with
\* bytesRead = 0, and a non-flush call with input still invokes the compress step.
C39_FinishedFlagAsStated ==
    [][/\ ZstdFlagLifetime
       /\ (ZstdFinished(state, backend) /\ last'.op = "CompressBlock"
              /\ last'.opPtr # NULL
              /\ op'.bytesInLength > 0 /\ op'.bytesIn # NULL) =>
             IF op'.flush # 0
             THEN last'.res = VNCMP_SUCCESS /\ op'.bytesRead = 0
             ELSE last'.step]_vars

\* C39 as amended: the same, for the calls whose output span passes validation
\* too (no positive bytesOutLength with a null bytesOut).
C39_FinishedFlagOnValidSpans ==
    [][/\ ZstdFlagLifetime
       /\ (ZstdFinished(state, backend) /\ last'.op = "CompressBlock"
              /\ last'.opPtr # NULL
              /\ op'.bytesInLength > 0 /\ op'.bytesIn # NULL /\ ValidSpans(op')) =>
             IF op'.flush # 0
             THEN last'.res = VNCMP_SUCCESS /\ op'.bytesRead = 0 /\ ~last'.step
             ELSE last'.step]_vars

\* A non-flush call with input on a finished Zstd stream went to the compress
\* step, and the stream is still marked finished.
C39_Witness ==
    /\ last.op = "CompressBlock" /\ last.opPtr # NULL
    /\ ZstdFinished(state, backend)
    /\ op.flush = 0 /\ op.bytesInLength = MaxLen /\ op.bytesIn # NULL
    /\ last.step

====
